---- MODULE Spec2Model ----
(***************************************************************************)
(* Wind-farm monitor: health scoring, maintenance alerts, status control,  *)
(* the map's store-backed operations and the side panel's history fetch.   *)
(*                                                                         *)
(* Four specifications share this module:                                  *)
(*   SpecScore  - calculateHealthScore and its health_history append       *)
(*   SpecAlerts - SidePanel / SmartMonitoring / MaintenanceAlerts wiring   *)
(*   Spec       - WindFarmMap's store-backed operations                    *)
(*   SpecFetch  - the debounced power-history fetch of the side panel      *)
(* Numbers with a fractional part are kept in tenths (power 4.8 MW = 48).  *)
(***************************************************************************)
EXTENDS Integers, Sequences, FiniteSets, TLC

\* ---------------------------------------------------------------------
\* Bounds of the model
\* ---------------------------------------------------------------------
MaxPowerTenths == 84
MinTemperature == 28
MaxTemperature == 37
MaxEvaluations == 2
MaxUserActions == 3
MaxInFlight == 2
MaxPanelActions == 3
MaxPanelEvals == 2
MaxPanelOps == 2
MaxFetchActions == 3
MaxInFlightFetches == 2
MaxClock == 900

\* ---------------------------------------------------------------------
\* Types
\* ---------------------------------------------------------------------
TurbineStatuses == {"normal", "warning", "error"}
PowerTenths == 0..MaxPowerTenths
Temperatures == MinTemperature..MaxTemperature
InsertOutcomes == {"ok", "error", "throw"}

\* ---------------------------------------------------------------------
\* HealthScorer (side-panel/utils.ts)
\* ---------------------------------------------------------------------
\* expectedPower argument of checkPowerEfficiency, 8.0 MW, in tenths
ExpectedPowerTenths == 80

\* powerEfficiency = (power / expectedPower) * 100, compared without
\* dividing: powerEfficiency < k  <=>  power * 100 < k * expectedPower
checkPowerEfficiency(power, expectedPower) ==
    IF power * 100 < 60 * expectedPower
    THEN [deduction |-> 20, issue |-> <<"Low power generation efficiency">>]
    ELSE IF power * 100 < 80 * expectedPower
    THEN [deduction |-> 10, issue |-> <<"Reduced power generation">>]
    ELSE [deduction |-> 0, issue |-> <<>>]

\* variant of checkTemperature whose upper threshold is inclusive
checkTemperatureInclusive(temperature) ==
    IF temperature >= 35
    THEN [deduction |-> 15, issue |-> <<"High temperature detected">>]
    ELSE IF temperature > 30
    THEN [deduction |-> 5, issue |-> <<"Temperature slightly elevated">>]
    ELSE [deduction |-> 0, issue |-> <<>>]

checkTemperature(temperature) ==
    IF temperature > 35
    THEN [deduction |-> 15, issue |-> <<"High temperature detected">>]
    ELSE IF temperature > 30
    THEN [deduction |-> 5, issue |-> <<"Temperature slightly elevated">>]
    ELSE [deduction |-> 0, issue |-> <<>>]

\* variant of checkStatus that credits a normal turbine with 10 points
checkStatusCrediting(status) ==
    IF status = "error"
    THEN [deduction |-> 40, issue |-> <<"Turbine in error state">>]
    ELSE IF status = "warning"
    THEN [deduction |-> 20, issue |-> <<"Turbine needs maintenance">>]
    ELSE [deduction |-> -10, issue |-> <<>>]

\* the operational-status branch of calculateHealthScore
checkStatus(status) ==
    IF status = "error"
    THEN [deduction |-> 40, issue |-> <<"Turbine in error state">>]
    ELSE IF status = "warning"
    THEN [deduction |-> 20, issue |-> <<"Turbine needs maintenance">>]
    ELSE [deduction |-> 0, issue |-> <<>>]

Max(a, b) == IF a >= b THEN a ELSE b

\* score >= 80 ? 'good' : score >= 60 ? 'warning' : 'critical'
scoreBand(score) ==
    IF score >= 80 THEN "good" ELSE IF score >= 60 THEN "warning" ELSE "critical"

\* variant of computeHealth that lists the issues in reverse check order
computeHealthIssuesReversed(turbine) ==
    LET statusCheck == checkStatus(turbine.status)
        powerCheck == checkPowerEfficiency(turbine.power, ExpectedPowerTenths)
        tempCheck == checkTemperature(turbine.temperature)
        score == 100 - statusCheck.deduction - powerCheck.deduction
                     - tempCheck.deduction
    IN [score |-> Max(0, score),
        status |-> scoreBand(score),
        issues |-> tempCheck.issue \o powerCheck.issue \o statusCheck.issue]

\* the synchronous part of calculateHealthScore: score, status, issues
\* (the band is taken from the unclamped score, the result clamps it)
computeHealth(turbine) ==
    LET statusCheck == checkStatus(turbine.status)
        powerCheck == checkPowerEfficiency(turbine.power, ExpectedPowerTenths)
        tempCheck == checkTemperature(turbine.temperature)
        score == 100 - statusCheck.deduction - powerCheck.deduction
                     - tempCheck.deduction
    IN [score |-> Max(0, score),
        status |-> scoreBand(score),
        issues |-> statusCheck.issue \o powerCheck.issue \o tempCheck.issue]

\* variant of healthHistoryRow that records the score as it stands before
\* the temperature check
healthHistoryRowBeforeTemperature(turbine) ==
    LET statusCheck == checkStatus(turbine.status)
        powerCheck == checkPowerEfficiency(turbine.power, ExpectedPowerTenths)
        score == 100 - statusCheck.deduction - powerCheck.deduction
    IN [turbine_id |-> turbine.id,
        health_score |-> score,
        status |-> scoreBand(score),
        issues |-> statusCheck.issue \o powerCheck.issue]

\* the row calculateHealthScore inserts into health_history
healthHistoryRow(turbine) ==
    LET statusCheck == checkStatus(turbine.status)
        powerCheck == checkPowerEfficiency(turbine.power, ExpectedPowerTenths)
        tempCheck == checkTemperature(turbine.temperature)
        score == 100 - statusCheck.deduction - powerCheck.deduction
                     - tempCheck.deduction
    IN [turbine_id |-> turbine.id,
        health_score |-> score,
        status |-> scoreBand(score),
        issues |-> statusCheck.issue \o powerCheck.issue \o tempCheck.issue]

\* variant of returnAfterInsert without the try/catch around the insert:
\* a thrown exception leaves calculateHealthScore without a result
returnAfterInsertUncaught(turbine, outcome) ==
    IF outcome = "throw"
    THEN [pc |-> "thrown",
          result |-> [score |-> 100, status |-> "good", issues |-> <<>>]]
    ELSE [pc |-> "returned", result |-> computeHealth(turbine)]

\* what calculateHealthScore hands back once the insert has settled:
\* an error result is logged, a thrown exception is caught and logged,
\* and the same {score, status, issues} is returned in all three cases
returnAfterInsert(turbine, outcome) ==
    [pc |-> "returned", result |-> computeHealth(turbine)]

VARIABLES
    evalTurbine,     \* the WindTurbine passed to calculateHealthScore
    evalPc,          \* "idle" | "awaitInsert" | "returned" | "thrown"
    evalOutcome,     \* how the health_history insert settled, or "none"
    evalResult,      \* the HealthScore returned, or the placeholder
    dbHealthHistory,   \* rows of the health_history table, oldest first
    evalCount,       \* evaluations started so far
    prevResult       \* what the evaluation before this one returned

scoreVars == <<evalTurbine, evalPc, evalOutcome, evalResult, dbHealthHistory,
               evalCount, prevResult>>

VARIABLES
    turbines,          \* useState<WindTurbine[]>, in-memory, in array order
    substations,       \* useState<Substation[]>
    connections,       \* useState<Connection[]>
    aggregates,        \* totalPower, averageWindSpeed, averageTemperature,
                       \* averageHumidity: the four useState(0) of the map
    selectedItem,      \* the item object last selected, or NoItem
    isLoading,         \* the shared loading flag
    isAddingTurbine,
    isAddingSubstation,
    isConnecting,
    connectingFrom,    \* [id, type] of the first endpoint, or NoItem
    dbTurbines,        \* rows of wind_turbines
    dbSubstations,     \* rows of substations
    dbConnections,     \* rows of connections
    dbPowerHistory,    \* turbine ids that have power_history rows
    dbEvents,          \* rows of turbine_events, oldest first
    nextConnId,        \* the next id the store assigns to a connection
    ops,               \* the async operations in flight, oldest first
    userActions,       \* operator events so far
    created,           \* assets created by map clicks so far
    done               \* the operation that finished in the last step

mapVars == <<turbines, substations, connections, aggregates, selectedItem,
            isLoading,
             isAddingTurbine, isAddingSubstation, isConnecting,
             connectingFrom, dbTurbines, dbSubstations, dbConnections,
             dbPowerHistory, dbEvents, nextConnId, ops, userActions,
             created, done>>

VARIABLES
    pTurbines,       \* the map's turbine records, by id (status may change)
    pSelected,       \* selectedItem: the turbine object clicked, or NoPanelItem
    healthScore,     \* SidePanel's useState(0)
    alerts,          \* MaintenanceAlerts' useState([]), newest first
    mountGen,        \* which mount of MaintenanceAlerts is the current one
    dbAlerts,        \* rows of maintenance_alerts, oldest first
    pEvals,          \* calculateHealthScore calls in flight (their turbine)
    pOps,            \* maintenance_alerts store calls in flight
    lastEval,        \* the evaluation that returned in the last step
    scoreSource,     \* the turbine whose evaluation set healthScore
    pActions,        \* operator events so far
    pStoreFailed     \* whether a maintenance_alerts call has failed

alertVars == <<pTurbines, pSelected, healthScore, alerts, mountGen, dbAlerts,
               pEvals, pOps, lastEval, scoreSource, pActions, pStoreFailed>>

VARIABLES
    fSelected,              \* selectedItem as the side panel sees it
    powerTimeRange,         \* useState<TimeRange>('week')
    healthTimeRange,        \* useState<TimeRange>('week')
    currentRequest,         \* the ref holding the latest request id, or null
    now,                    \* Date.now(), in ms since the panel was created
    debounceTimer,          \* the pending debounced call, or NoTimer
    powerFetches,           \* power_history selects in flight
    healthFetches,          \* health_history selects in flight
    powerHistory,           \* useState<PowerData[]>: the response applied
    healthHistory,          \* useState<HealthData[]>: the response applied
    isLoadingHistory,
    isLoadingHealthHistory,
    issued,                 \* power-history fetches issued so far
    discarded,              \* the last power-history response dropped as stale
    fActions                \* operator events so far

fetchVars == <<fSelected, powerTimeRange, healthTimeRange, currentRequest,
               now, debounceTimer, powerFetches, healthFetches, powerHistory,
               healthHistory, isLoadingHistory, isLoadingHealthHistory,
               issued, discarded, fActions>>

vars == <<scoreVars, mapVars, alertVars, fetchVars>>

nonScoreVars == <<mapVars, alertVars, fetchVars>>
nonMapVars == <<scoreVars, alertVars, fetchVars>>
nonAlertVars == <<scoreVars, mapVars, fetchVars>>
nonFetchVars == <<scoreVars, mapVars, alertVars>>

\* SmartMonitoring's initial health state
NoResult == [score |-> 100, status |-> "good", issues |-> <<>>]

\* the fields of a WindTurbine that calculateHealthScore does not read,
\* as the turbine of one evaluation and of the next may differ in them
UnscoredFields ==
    {[id |-> "T1", windSpeed |-> 5, humidity |-> 60, events |-> <<>>],
     [id |-> "T1", windSpeed |-> 12, humidity |-> 75, events |-> <<>>],
     [id |-> "T2", windSpeed |-> 12, humidity |-> 60,
      events |-> <<[event |-> <<"u5B89u88DDu5B8Cu6210">>]>>]}

\* the turbine with its unscored fields replaced
withUnscored(turbine, u) ==
    [turbine EXCEPT !.id = u.id, !.windSpeed = u.windSpeed,
                    !.humidity = u.humidity, !.events = u.events]

ScoreInit ==
    /\ evalTurbine \in [id : {"T1"}, status : TurbineStatuses,
                        power : PowerTenths, temperature : Temperatures,
                        windSpeed : {5}, humidity : {60}, events : {<<>>}]
    /\ evalPc = "idle"
    /\ evalOutcome = "none"
    /\ evalResult = NoResult
    /\ dbHealthHistory = <<>>
    /\ evalCount = 0
    /\ prevResult = NoResult

\* calculateHealthScore up to its await: the insert is issued
CalculateStart ==
    /\ evalPc \in {"idle", "returned"}
    /\ evalCount < MaxEvaluations
    /\ evalPc' = "awaitInsert"
    /\ evalOutcome' = "none"
    /\ evalCount' = evalCount + 1
    /\ prevResult' = evalResult
    /\ IF evalPc = "idle"
       THEN evalTurbine' = evalTurbine
       ELSE \E u \in UnscoredFields : evalTurbine' = withUnscored(evalTurbine, u)
    /\ UNCHANGED <<evalResult, dbHealthHistory>>
    /\ UNCHANGED nonScoreVars

\* variant of InsertSettles whose result depends on the store: a failed
\* insert makes the evaluation return the score 0
InsertSettlesStoreDependent(outcome) ==
    /\ evalPc = "awaitInsert"
    /\ evalOutcome' = outcome
    /\ dbHealthHistory' = IF outcome = "ok"
                        THEN Append(dbHealthHistory, healthHistoryRow(evalTurbine))
                        ELSE dbHealthHistory
    /\ LET r == returnAfterInsert(evalTurbine, outcome)
       IN /\ evalPc' = r.pc
          /\ evalResult' = IF outcome = "ok" THEN r.result
                           ELSE [r.result EXCEPT !.score = 0]
    /\ UNCHANGED <<evalTurbine, evalCount, prevResult>>
    /\ UNCHANGED nonScoreVars

\* the insert settles with an outcome and calculateHealthScore resumes
InsertSettles(outcome) ==
    /\ evalPc = "awaitInsert"
    /\ evalOutcome' = outcome
    /\ dbHealthHistory' = IF outcome = "ok"
                        THEN Append(dbHealthHistory, healthHistoryRow(evalTurbine))
                        ELSE dbHealthHistory
    /\ LET r == returnAfterInsert(evalTurbine, outcome)
       IN /\ evalPc' = r.pc
          /\ evalResult' = r.result
    /\ UNCHANGED <<evalTurbine, evalCount, prevResult>>
    /\ UNCHANGED nonScoreVars

InsertOk == InsertSettles("ok")
InsertError == InsertSettles("error")
InsertThrow == InsertSettles("throw")

NextScore ==
    \/ CalculateStart
    \/ InsertOk
    \/ InsertError
    \/ InsertThrow


\* ---------------------------------------------------------------------
\* WindFarmMap (wind-farm-map.tsx): state, store tables, helpers
\* ---------------------------------------------------------------------
NoItem == [kind |-> "none"]
NoRequest == "null"
NoTimer == [due |-> -1, turbineId |-> ""]
NoHistory == [request |-> 0, turbineId |-> "", range |-> ""]
NoOp == [kind |-> "none"]
NotDone == [op |-> NoOp, result |-> "none", errors |-> FALSE]

\* (latitude, longitude) pairs the operator can click or drag to
Positions == {<<24, 119>>, <<-25, 120>>}

\* ids in the order a select returns their rows
TurbineIdOrder == <<"T1", "T2", "N1", "N2", "N3", "N4">>
SubstationIdOrder == <<"S1">>

\* `HL30-NEW${Date.now()}` / `HL30-SUB${Date.now()}`: the n-th created id
newTurbineId(n) == TurbineIdOrder[2 + n]
newSubstationId(n) == <<"M1", "M2", "M3", "M4">>[n]

\* String(n) of a whole number: an optional sign and the decimal digits,
\* one character per element
DigitChars == <<"0", "1", "2", "3", "4", "5", "6", "7", "8", "9">>

RECURSIVE digitsOf(_)
digitsOf(n) ==
    IF n < 10 THEN <<DigitChars[n + 1]>>
    ELSE digitsOf(n \div 10) \o <<DigitChars[(n % 10) + 1]>>

numberText(n) == IF n < 0 THEN <<"-">> \o digitsOf(-n) ELSE digitsOf(n)

\* Number(text) of such a text
RECURSIVE valueOfDigits(_)
valueOfDigits(text) ==
    IF text = <<>> THEN 0
    ELSE valueOfDigits(SubSeq(text, 1, Len(text) - 1)) * 10
         + (CHOOSE d \in 0..9 : DigitChars[d + 1] = text[Len(text)])

textNumber(text) ==
    IF text # <<>> /\ Head(text) = "-" THEN -valueOfDigits(Tail(text))
    ELSE valueOfDigits(text)

\* text.split(','): the parts between the commas
RECURSIVE splitAtCommas(_)
splitAtCommas(text) ==
    IF \A k \in DOMAIN text : text[k] # ","
    THEN <<text>>
    ELSE LET c == CHOOSE k \in DOMAIN text :
                      text[k] = "," /\ \A m \in 1..(k - 1) : text[m] # ","
         IN <<SubSeq(text, 1, c - 1)>>
            \o splitAtCommas(SubSeq(text, c + 1, Len(text)))

\* the template literal `(${lon},${lat})` written to the location column
pointText(position) ==
    <<"(">> \o numberText(position[2]) \o <<",">> \o numberText(position[1])
    \o <<")">>

\* variant of parsePointString that returns the parts in their text order
parsePointStringUnflipped(pointStr) ==
    LET parts == splitAtCommas(SubSeq(pointStr, 2, Len(pointStr) - 1))
        lon == textNumber(parts[1])
        lat == textNumber(parts[2])
    IN <<lon, lat>>

\* pointStr.slice(1, -1).split(',').map(Number), returned as [lat, lon]
parsePointString(pointStr) ==
    LET parts == splitAtCommas(SubSeq(pointStr, 2, Len(pointStr) - 1))
        lon == textNumber(parts[1])
        lat == textNumber(parts[2])
    IN <<lat, lon>>

\* the text of the event updateTurbineStatus records, a template literal
\* of five CJK characters (U+72C0 U+614B U+66F4 U+6539 U+70BA) and newStatus
StatusEventPrefix == "u72C0u614Bu66F4u6539u70BA"
statusEventText(newStatus) == <<StatusEventPrefix, newStatus>>

\* the row updateTurbineStatus inserts into turbine_events
statusEventRow(id, newStatus) ==
    [turbine_id |-> id, event |-> statusEventText(newStatus)]

\* the event updateTurbineStatus prepends in memory ({date, event})
statusEventItem(newStatus) == [event |-> statusEventText(newStatus)]

\* the event a created turbine starts with (four CJK characters)
installedEvent == [event |-> <<"u5B89u88DDu5B8Cu6210">>]

\* event.priority as a reader sees it, as a set: empty when the field is
\* absent (undefined in memory, null in a row)
eventPriority(e) == IF "priority" \in DOMAIN e THEN {e.priority} ELSE {}

RECURSIVE SeqFilterIds(_, _)
\* the elements of s whose id is in ids, in order
SeqFilterIds(s, ids) ==
    IF s = <<>> THEN <<>>
    ELSE IF Head(s).id \in ids
         THEN <<Head(s)>> \o SeqFilterIds(Tail(s), ids)
         ELSE SeqFilterIds(Tail(s), ids)

SeqIds(s) == {s[i].id : i \in DOMAIN s}

RemoveAt(s, i) == SubSeq(s, 1, i - 1) \o SubSeq(s, i + 1, Len(s))

RECURSIVE RowsInOrder(_, _)
\* the rows of a table whose ids are listed in order, in that order
RowsInOrder(tbl, order) ==
    IF order = <<>> THEN <<>>
    ELSE LET rows == {r \in tbl : r.id = Head(order)}
         IN (IF rows = {} THEN <<>> ELSE <<CHOOSE r \in rows : TRUE>>)
            \o RowsInOrder(tbl, Tail(order))

convertToWindTurbine(record) ==
    [kind |-> "turbine",
     id |-> record.id,
     position |-> parsePointString(record.location),
     power |-> record.power,
     windSpeed |-> record.wind_speed,
     temperature |-> record.temperature,
     humidity |-> record.humidity,
     status |-> record.status,
     events |-> <<>>]

convertToSubstation(record) ==
    [kind |-> "substation",
     id |-> record.id,
     position |-> parsePointString(record.location)]

\* the mapping fetchData applies to a connections row
convertToConnection(conn) ==
    [id |-> conn.id, from |-> conn.from_id, to |-> conn.to_id,
     status |-> conn.status, type |-> conn.type]

\* variant of withoutEndpoint that looks at the from endpoint only
withoutEndpointFromOnly(conns, id) ==
    SeqFilterIds(conns, {conns[i].id : i \in {j \in DOMAIN conns :
                            conns[j].from # id}})

\* prev.filter(c => c.from !== id && c.to !== id)
withoutEndpoint(conns, id) ==
    SeqFilterIds(conns, {conns[i].id : i \in {j \in DOMAIN conns :
                            conns[j].from # id /\ conns[j].to # id}})

\* connections.filter(conn => conn.from === id || conn.to === id), as ids
relatedConnections(conns, id) ==
    LET rel == SeqFilterIds(conns, {conns[i].id : i \in {j \in DOMAIN conns :
                            conns[j].from = id \/ conns[j].to = id}})
    IN [i \in DOMAIN rel |-> rel[i].id]

\* a store table with one row changed by .update(...).eq('id', id)
updateRow(tbl, id, field, value) ==
    {IF r.id = id THEN [r EXCEPT ![field] = value] ELSE r : r \in tbl}

NoData == [turbines |-> <<>>, substations |-> <<>>]

\* an operation in flight; fields an operation does not use stay at default
Op(kind, id, conn, arg, pc, related) ==
    [kind |-> kind, id |-> id, conn |-> conn, arg |-> arg, pc |-> pc,
     related |-> related, k |-> 1, failed |-> FALSE, data |-> NoData]

StoreOutcomes == {"ok", "error", "throw"}

OpIndexes == DOMAIN ops

\* ghost: records the operation ops[i] as finished with a result
\* ("success": reached its in-memory update; "returned": early return after
\* an error result; "threw": left by an exception) 
Finished(i, op, result, errors) ==
    /\ ops' = RemoveAt(ops, i)
    /\ done' = [op |-> op, result |-> result, errors |-> errors]

\* turbines.reduce((sum, turbine) => sum + turbine[field], 0)
RECURSIVE reduceSum(_, _, _)
reduceSum(ts, field, sum) ==
    IF ts = <<>> THEN sum
    ELSE reduceSum(Tail(ts), field, sum + Head(ts)[field])

\* variant of averageOf that divides by turbines.length unguarded
averageOfUnguarded(ts, field) ==
    [sum |-> reduceSum(ts, field, 0), over |-> Len(ts)]

\* reduce(...) / (turbines.length || 1), kept as the exact quotient sum/over
averageOf(ts, field) ==
    [sum |-> reduceSum(ts, field, 0),
     over |-> IF Len(ts) = 0 THEN 1 ELSE Len(ts)]

\* the effect on [turbines]: the four setters
aggregateEffect(ts) ==
    [totalPower |-> reduceSum(ts, "power", 0),
     averageWindSpeed |-> averageOf(ts, "windSpeed"),
     averageTemperature |-> averageOf(ts, "temperature"),
     averageHumidity |-> averageOf(ts, "humidity")]

\* getTurbineStatusCounts: acc[turbine.status]++ from {0, 0, 0}
RECURSIVE countStatuses(_, _)
countStatuses(ts, acc) ==
    IF ts = <<>> THEN acc
    ELSE countStatuses(Tail(ts), [acc EXCEPT ![Head(ts).status] = @ + 1])

getTurbineStatusCounts(ts) ==
    countStatuses(ts, [normal |-> 0, warning |-> 0, error |-> 0])

\* the tables as the store holds them when the page is opened
MapInit ==
    /\ turbines = <<>>
    /\ substations = <<>>
    /\ connections = <<>>
    /\ aggregates = aggregateEffect(<<>>)
    /\ selectedItem = NoItem
    /\ isLoading = TRUE
    /\ isAddingTurbine = FALSE
    /\ isAddingSubstation = FALSE
    /\ isConnecting = FALSE
    /\ connectingFrom = NoItem
    /\ dbTurbines = {[id |-> "T1", location |-> pointText(<<24, 119>>),
                      power |-> 60, wind_speed |-> 7, temperature |-> 20,
                      humidity |-> 65, status |-> "normal"],
                     [id |-> "T2", location |-> pointText(<<25, 120>>),
                      power |-> 45, wind_speed |-> 10, temperature |-> 23,
                      humidity |-> 70, status |-> "warning"]}
    /\ dbSubstations = {[id |-> "S1", location |-> pointText(<<25, 119>>)]}
    /\ dbConnections = {[id |-> 1, from_id |-> "T1", to_id |-> "S1",
                         from_type |-> "turbine", to_type |-> "substation",
                         status |-> "normal", type |-> "turbine-substation"],
                        [id |-> 2, from_id |-> "T2", to_id |-> "T1",
                         from_type |-> "turbine", to_type |-> "turbine",
                         status |-> "normal", type |-> "turbine-turbine"]}
    /\ dbPowerHistory = {"T1", "T2"}
    /\ dbEvents = <<>>
    /\ nextConnId = 3
    /\ ops = <<Op("fetchData", "", 0, "", "selectTurbines", <<>>)>>
    /\ userActions = 0
    /\ created = 0
    /\ done = NotDone

uiVars == <<selectedItem, isAddingTurbine, isAddingSubstation, isConnecting,
            connectingFrom>>
memVars == <<turbines, substations, connections, aggregates>>
dbVars == <<dbTurbines, dbSubstations, dbConnections, dbPowerHistory,
            dbEvents, nextConnId>>
\* ghost: no operation finishes in this step
NothingFinished == done' = NotDone

\* an operator event is counted; one that starts an operation needs room
UserAction ==
    /\ userActions < MaxUserActions
    /\ userActions' = userActions + 1

StartOp(op) ==
    /\ Len(ops) < MaxInFlight
    /\ ops' = Append(ops, op)

ConnIdOrder == [n \in 1..(nextConnId - 1) |-> n]

\* ---------------------------------------------------------------------
\* fetchData: the mount effect, three selects, then the three setters
\* ---------------------------------------------------------------------
FetchDataResponse(i, outcome) ==
    /\ i \in OpIndexes
    /\ ops[i].kind = "fetchData"
    /\ LET op == ops[i] IN
       IF outcome = "ok" /\ op.pc = "selectTurbines"
       THEN /\ ops' = [ops EXCEPT ![i].pc = "selectSubstations",
                         ![i].data.turbines =
                             RowsInOrder(dbTurbines, TurbineIdOrder)]
            /\ UNCHANGED <<memVars, isLoading>>
            /\ NothingFinished
       ELSE IF outcome = "ok" /\ op.pc = "selectSubstations"
       THEN /\ ops' = [ops EXCEPT ![i].pc = "selectConnections",
                         ![i].data.substations =
                             RowsInOrder(dbSubstations, SubstationIdOrder)]
            /\ UNCHANGED <<memVars, isLoading>>
            /\ NothingFinished
       ELSE IF outcome = "ok"
       THEN LET conns == RowsInOrder(dbConnections, ConnIdOrder) IN
            /\ turbines' = [j \in DOMAIN op.data.turbines |->
                               convertToWindTurbine(op.data.turbines[j])]
            /\ aggregates' = aggregateEffect(turbines')
            /\ substations' = [j \in DOMAIN op.data.substations |->
                                  convertToSubstation(op.data.substations[j])]
            /\ connections' = [j \in DOMAIN conns |->
                                  convertToConnection(conns[j])]
            /\ isLoading' = FALSE
            /\ Finished(i, op, "success", FALSE)
       ELSE /\ isLoading' = FALSE
            /\ Finished(i, op, IF outcome = "error" THEN "returned" ELSE "threw",
                        TRUE)
            /\ UNCHANGED memVars
    /\ UNCHANGED <<uiVars, dbVars, userActions, created, nonMapVars>>

\* ---------------------------------------------------------------------
\* The mode buttons, the reset button and the panel's close
\* ---------------------------------------------------------------------
ToggleAddTurbine ==
    /\ UserAction
    /\ isAddingTurbine' = ~isAddingTurbine
    /\ isAddingSubstation' = FALSE
    /\ isConnecting' = FALSE
    /\ UNCHANGED <<selectedItem, connectingFrom, memVars, dbVars, ops,
                   isLoading, created, nonMapVars>>
    /\ NothingFinished

ToggleAddSubstation ==
    /\ UserAction
    /\ isAddingSubstation' = ~isAddingSubstation
    /\ isAddingTurbine' = FALSE
    /\ isConnecting' = FALSE
    /\ UNCHANGED <<selectedItem, connectingFrom, memVars, dbVars, ops,
                   isLoading, created, nonMapVars>>
    /\ NothingFinished

ToggleConnect ==
    /\ UserAction
    /\ isConnecting' = ~isConnecting
    /\ connectingFrom' = NoItem
    /\ UNCHANGED <<selectedItem, isAddingTurbine, isAddingSubstation, memVars,
                   dbVars, ops, isLoading, created, nonMapVars>>
    /\ NothingFinished

ResetAll ==
    /\ UserAction
    /\ turbines' = <<>>
    /\ aggregates' = aggregateEffect(turbines')
    /\ substations' = <<>>
    /\ connections' = <<>>
    /\ UNCHANGED <<uiVars, dbVars, ops, isLoading, created, nonMapVars>>
    /\ NothingFinished

\* Modal onClose
ClosePanel ==
    /\ UserAction
    /\ selectedItem # NoItem
    /\ selectedItem' = NoItem
    /\ UNCHANGED <<isAddingTurbine, isAddingSubstation, isConnecting,
                   connectingFrom, memVars, dbVars, ops, isLoading, created, nonMapVars>>
    /\ NothingFinished

\* ---------------------------------------------------------------------
\* MapEvents.click: turbine creation (two inserts) or substation creation
\* ---------------------------------------------------------------------
\* windSpeed, temperature and humidity of a created turbine
\* (5 + Math.random() * 10, 15 + Math.random() * 10, 60 + Math.random() * 20)
NewTurbineWeather == [windSpeed |-> 12, temperature |-> 18, humidity |-> 75]

newTurbine(id, position, power) ==
    [kind |-> "turbine", id |-> id, position |-> position, power |-> power,
     windSpeed |-> NewTurbineWeather.windSpeed,
     temperature |-> NewTurbineWeather.temperature,
     humidity |-> NewTurbineWeather.humidity,
     status |-> "normal", events |-> <<installedEvent>>]

\* the row MapEvents.click inserts into wind_turbines
newTurbineRow(t) ==
    [id |-> t.id, location |-> pointText(t.position), power |-> t.power,
     wind_speed |-> t.windSpeed, temperature |-> t.temperature,
     humidity |-> t.humidity, status |-> t.status]

MapClick(position, power) ==
    /\ UserAction
    /\ selectedItem' = NoItem
    /\ IF isAddingTurbine
       THEN /\ created < Len(TurbineIdOrder) - 2
            /\ StartOp(Op("createTurbine", newTurbineId(created + 1), 0,
                          newTurbine(newTurbineId(created + 1), position, power),
                          "insertTurbine", <<>>))
            /\ created' = created + 1
            /\ UNCHANGED substations
       ELSE IF isAddingSubstation
       THEN /\ created < 4
            /\ substations' = Append(substations,
                   [kind |-> "substation", id |-> newSubstationId(created + 1),
                    position |-> position])
            /\ created' = created + 1
            /\ UNCHANGED ops
       ELSE UNCHANGED <<substations, created, ops>>
    /\ UNCHANGED <<turbines, aggregates, connections, isAddingTurbine, isAddingSubstation,
                   isConnecting, connectingFrom, dbVars, isLoading, nonMapVars>>
    /\ NothingFinished

CreateTurbineResponse(i, outcome) ==
    /\ i \in OpIndexes
    /\ ops[i].kind = "createTurbine"
    /\ LET op == ops[i] IN
       IF outcome = "ok" /\ op.pc = "insertTurbine"
       THEN /\ dbTurbines' = dbTurbines \cup {newTurbineRow(op.arg)}
            /\ ops' = [ops EXCEPT ![i].pc = "insertHistory"]
            /\ UNCHANGED <<turbines, aggregates, dbPowerHistory>>
            /\ NothingFinished
       ELSE IF outcome = "ok"
       THEN /\ dbPowerHistory' = dbPowerHistory \cup {op.id}
            /\ turbines' = Append(turbines, op.arg)
            /\ aggregates' = aggregateEffect(turbines')
            /\ Finished(i, op, "success", FALSE)
            /\ UNCHANGED dbTurbines
       ELSE /\ Finished(i, op, IF outcome = "error" THEN "returned" ELSE "threw",
                        TRUE)
            /\ UNCHANGED <<turbines, aggregates, dbTurbines, dbPowerHistory>>
    /\ UNCHANGED <<substations, connections, uiVars, dbSubstations,
                   dbConnections, dbEvents, nextConnId, isLoading, userActions,
                   created, nonMapVars>>

\* ---------------------------------------------------------------------
\* DraggableMarker: click (select, connect mode) and dragend
\* ---------------------------------------------------------------------
Items == {turbines[j] : j \in DOMAIN turbines}
             \cup {substations[j] : j \in DOMAIN substations}

\* variant of addConnectionOp that connects the first asset to itself
addConnectionOpToSelf(fromId, toId, type) ==
    Op("addConnection", fromId, 0,
       [from_id |-> fromId, to_id |-> fromId, from_type |-> "turbine",
        to_type |-> "turbine", status |-> "normal", type |-> type],
       "insert", <<>>)

\* the call addConnection(fromId, toId, type) up to its await
addConnectionOp(fromId, toId, type) ==
    LET fromType == IF fromId \in SeqIds(turbines) THEN "turbine"
                    ELSE "substation"
        toType == IF toId \in SeqIds(turbines) THEN "turbine" ELSE "substation"
    IN Op("addConnection", fromId, 0,
          [from_id |-> fromId, to_id |-> toId, from_type |-> fromType,
           to_type |-> toType, status |-> "normal", type |-> type],
          "insert", <<>>)

MarkerClick(item) ==
    /\ UserAction
    /\ item \in Items
    /\ selectedItem' = item
    /\ IF isConnecting /\ connectingFrom = NoItem
       THEN /\ connectingFrom' = [kind |-> "from", id |-> item.id,
                                   type |-> item.kind]
            /\ UNCHANGED <<isConnecting, ops, isLoading>>
       ELSE IF isConnecting /\ connectingFrom.id # item.id
       THEN /\ StartOp(addConnectionOp(connectingFrom.id, item.id,
                   IF connectingFrom.type = "turbine" /\ item.kind = "turbine"
                   THEN "turbine-turbine" ELSE "turbine-substation"))
            /\ isLoading' = TRUE
            /\ connectingFrom' = NoItem
            /\ isConnecting' = FALSE
       ELSE UNCHANGED <<connectingFrom, isConnecting, ops, isLoading>>
    /\ UNCHANGED <<isAddingTurbine, isAddingSubstation, memVars, dbVars,
                   created, nonMapVars>>
    /\ NothingFinished

AddConnectionResponse(i, outcome) ==
    /\ i \in OpIndexes
    /\ ops[i].kind = "addConnection"
    /\ LET op == ops[i]
           data == [id |-> nextConnId] @@ op.arg
       IN
       IF outcome = "ok"
       THEN /\ dbConnections' = dbConnections \cup {data}
            /\ nextConnId' = nextConnId + 1
            /\ connections' = Append(connections, convertToConnection(data))
            /\ Finished(i, op, "success", FALSE)
       ELSE /\ Finished(i, op, IF outcome = "error" THEN "returned" ELSE "threw",
                        TRUE)
            /\ UNCHANGED <<dbConnections, nextConnId, connections>>
    /\ isLoading' = FALSE
    /\ UNCHANGED <<turbines, aggregates, substations, uiVars, dbTurbines, dbSubstations,
                   dbPowerHistory, dbEvents, userActions, created, nonMapVars>>

\* marker dragend: updatePosition(item.id, [lat, lng]), for either kind
MarkerDrag(item, newPosition) ==
    /\ UserAction
    /\ item \in Items
    /\ StartOp(Op("updateTurbinePosition", item.id, 0, newPosition, "update",
                  <<>>))
    /\ UNCHANGED <<uiVars, memVars, dbVars, isLoading, created, nonMapVars>>
    /\ NothingFinished

\* prev.map(t => t.id === id ? { ...t, position: newPosition } : t)
setPositionInMemory(ts, id, newPosition) ==
    [j \in DOMAIN ts |->
        IF ts[j].id = id THEN [ts[j] EXCEPT !.position = newPosition]
        ELSE ts[j]]

UpdateTurbinePositionResponse(i, outcome) ==
    /\ i \in OpIndexes
    /\ ops[i].kind = "updateTurbinePosition"
    /\ LET op == ops[i] IN
       IF outcome = "ok"
       THEN /\ dbTurbines' = updateRow(dbTurbines, op.id, "location",
                                       pointText(op.arg))
            /\ turbines' = setPositionInMemory(turbines, op.id, op.arg)
            /\ aggregates' = aggregateEffect(turbines')
            /\ Finished(i, op, "success", FALSE)
       ELSE /\ Finished(i, op, IF outcome = "error" THEN "returned" ELSE "threw",
                        TRUE)
            /\ UNCHANGED <<dbTurbines, turbines, aggregates>>
    /\ UNCHANGED <<substations, connections, uiVars, dbSubstations,
                   dbConnections, dbPowerHistory, dbEvents, nextConnId,
                   isLoading, userActions, created, nonMapVars>>

\* ---------------------------------------------------------------------
\* StatusControl -> updateTurbineStatus(selectedItem.id, status)
\* ---------------------------------------------------------------------
StatusChange(newStatus) ==
    /\ UserAction
    /\ selectedItem.kind = "turbine"
    /\ StartOp(Op("updateTurbineStatus", selectedItem.id, 0, newStatus,
                  "updateStatus", <<>>))
    /\ isLoading' = TRUE
    /\ UNCHANGED <<uiVars, memVars, dbVars, created, nonMapVars>>
    /\ NothingFinished

\* variant of setStatusInMemory that puts the new event last
setStatusInMemoryAppend(ts, id, newStatus) ==
    [j \in DOMAIN ts |->
        IF ts[j].id = id
        THEN [ts[j] EXCEPT !.status = newStatus,
                           !.events = @ \o <<statusEventItem(newStatus)>>]
        ELSE ts[j]]

\* the setTurbines updater of updateTurbineStatus
setStatusInMemory(ts, id, newStatus) ==
    [j \in DOMAIN ts |->
        IF ts[j].id = id
        THEN [ts[j] EXCEPT !.status = newStatus,
                           !.events = <<statusEventItem(newStatus)>> \o @]
        ELSE ts[j]]

UpdateTurbineStatusResponse(i, outcome) ==
    /\ i \in OpIndexes
    /\ ops[i].kind = "updateTurbineStatus"
    /\ LET op == ops[i] IN
       IF op.pc = "updateStatus" /\ outcome = "ok"
       THEN /\ dbTurbines' = updateRow(dbTurbines, op.id, "status", op.arg)
            /\ ops' = [ops EXCEPT ![i].pc = "insertEvent"]
            /\ UNCHANGED <<dbEvents, turbines, aggregates, isLoading>>
            /\ NothingFinished
       ELSE IF op.pc = "updateStatus"
       THEN /\ isLoading' = FALSE
            /\ Finished(i, op, IF outcome = "error" THEN "returned" ELSE "threw",
                        TRUE)
            /\ UNCHANGED <<dbTurbines, dbEvents, turbines, aggregates>>
       ELSE IF outcome = "throw"
       THEN /\ isLoading' = FALSE
            /\ Finished(i, op, "threw", TRUE)
            /\ UNCHANGED <<dbTurbines, dbEvents, turbines, aggregates>>
       ELSE \* an eventError is logged and the handler carries on
            /\ dbEvents' = IF outcome = "ok"
                           THEN Append(dbEvents, statusEventRow(op.id, op.arg))
                           ELSE dbEvents
            /\ turbines' = setStatusInMemory(turbines, op.id, op.arg)
            /\ aggregates' = aggregateEffect(turbines')
            /\ isLoading' = FALSE
            /\ Finished(i, op, "success", outcome = "error")
            /\ UNCHANGED dbTurbines
    /\ UNCHANGED <<substations, connections, uiVars, dbSubstations,
                   dbConnections, dbPowerHistory, nextConnId, userActions,
                   created, nonMapVars>>

\* ---------------------------------------------------------------------
\* ConnectionLines.handleConnectionClick -> updateConnectionStatus
\* ---------------------------------------------------------------------
nextConnectionStatus(status) ==
    IF status = "normal" THEN "warning"
    ELSE IF status = "warning" THEN "error" ELSE "normal"

\* a Polyline is rendered only when both endpoints are found
ConnectionClick(c) ==
    /\ UserAction
    /\ c \in DOMAIN connections
    /\ connections[c].from \in SeqIds(turbines) \cup SeqIds(substations)
    /\ connections[c].to \in SeqIds(turbines) \cup SeqIds(substations)
    /\ StartOp(Op("updateConnectionStatus", "", connections[c].id,
                  nextConnectionStatus(connections[c].status), "update", <<>>))
    /\ isLoading' = TRUE
    /\ UNCHANGED <<uiVars, memVars, dbVars, created, nonMapVars>>
    /\ NothingFinished

UpdateConnectionStatusResponse(i, outcome) ==
    /\ i \in OpIndexes
    /\ ops[i].kind = "updateConnectionStatus"
    /\ LET op == ops[i] IN
       IF outcome = "ok"
       THEN /\ dbConnections' = updateRow(dbConnections, op.conn, "status",
                                          op.arg)
            /\ connections' = [j \in DOMAIN connections |->
                   IF connections[j].id = op.conn
                   THEN [connections[j] EXCEPT !.status = op.arg]
                   ELSE connections[j]]
            /\ Finished(i, op, "success", FALSE)
       ELSE /\ Finished(i, op, IF outcome = "error" THEN "returned" ELSE "threw",
                        TRUE)
            /\ UNCHANGED <<dbConnections, connections>>
    /\ isLoading' = FALSE
    /\ UNCHANGED <<turbines, aggregates, substations, uiVars, dbTurbines, dbSubstations,
                   dbPowerHistory, dbEvents, nextConnId, userActions, created, nonMapVars>>

\* ---------------------------------------------------------------------
\* deleteConnection (a prop of the side panel)
\* ---------------------------------------------------------------------
DeleteConnectionCall(c) ==
    /\ UserAction
    /\ c \in DOMAIN connections
    /\ StartOp(Op("deleteConnection", "", connections[c].id, "", "delete",
                  <<>>))
    /\ isLoading' = TRUE
    /\ UNCHANGED <<uiVars, memVars, dbVars, created, nonMapVars>>
    /\ NothingFinished

DeleteConnectionResponse(i, outcome) ==
    /\ i \in OpIndexes
    /\ ops[i].kind = "deleteConnection"
    /\ LET op == ops[i] IN
       IF outcome = "ok"
       THEN /\ dbConnections' = {r \in dbConnections : r.id # op.conn}
            /\ connections' = SeqFilterIds(connections,
                                           SeqIds(connections) \ {op.conn})
            /\ Finished(i, op, "success", FALSE)
       ELSE /\ Finished(i, op, IF outcome = "error" THEN "returned" ELSE "threw",
                        TRUE)
            /\ UNCHANGED <<dbConnections, connections>>
    /\ isLoading' = FALSE
    /\ UNCHANGED <<turbines, aggregates, substations, uiVars, dbTurbines, dbSubstations,
                   dbPowerHistory, dbEvents, nextConnId, userActions, created, nonMapVars>>

\* ---------------------------------------------------------------------
\* The panel's delete button -> deleteTurbine / deleteSubstation
\* ---------------------------------------------------------------------
DeleteSelected ==
    /\ UserAction
    /\ selectedItem # NoItem
    /\ LET related == relatedConnections(connections, selectedItem.id) IN
       IF selectedItem.kind = "turbine"
       THEN StartOp(Op("deleteTurbine", selectedItem.id, 0, "",
                       IF related = <<>> THEN "deletePowerHistory"
                       ELSE "deleteConnections", related))
       ELSE StartOp(Op("deleteSubstation", selectedItem.id, 0, "",
                       IF related = <<>> THEN "deleteSubstation"
                       ELSE "deleteConnections", related))
    /\ isLoading' = TRUE
    /\ UNCHANGED <<uiVars, memVars, dbVars, created, nonMapVars>>
    /\ NothingFinished

\* the tables deleteTurbine has issued deletes on when it is at a program
\* point: the loop over the related connections, then power_history, then
\* the delete of the wind_turbines row
deletesIssuedBefore(pc) ==
    IF pc = "deleteConnections" THEN <<>>
    ELSE IF pc = "deletePowerHistory" THEN <<"connections">>
    ELSE <<"connections", "power_history">>

\* prev.filter(t => t.id !== id)
withoutId(items, id) == SeqFilterIds(items, SeqIds(items) \ {id})

DeleteTurbineResponse(i, outcome) ==
    /\ i \in OpIndexes
    /\ ops[i].kind = "deleteTurbine"
    /\ LET op == ops[i] IN
       IF outcome = "throw"
       THEN \* caught and logged; the panel's handler then clears the selection
            /\ isLoading' = FALSE
            /\ selectedItem' = NoItem
            /\ Finished(i, op, "threw", TRUE)
            /\ UNCHANGED <<turbines, aggregates, connections, dbTurbines, dbConnections,
                           dbPowerHistory>>
       ELSE IF op.pc = "deleteConnections"
       THEN \* the result of the delete is not looked at
            /\ dbConnections' = IF outcome = "ok"
                   THEN {r \in dbConnections : r.id # op.related[op.k]}
                   ELSE dbConnections
            /\ ops' = [ops EXCEPT
                   ![i].k = op.k + 1,
                   ![i].failed = op.failed \/ outcome = "error",
                   ![i].pc = IF op.k = Len(op.related)
                             THEN "deletePowerHistory" ELSE op.pc]
            /\ UNCHANGED <<turbines, aggregates, connections, dbTurbines, dbPowerHistory,
                           isLoading, selectedItem>>
            /\ NothingFinished
       ELSE IF op.pc = "deletePowerHistory"
       THEN \* the result of the delete is not looked at
            /\ dbPowerHistory' = IF outcome = "ok"
                                 THEN dbPowerHistory \ {op.id}
                                 ELSE dbPowerHistory
            /\ ops' = [ops EXCEPT
                   ![i].failed = op.failed \/ outcome = "error",
                   ![i].pc = "deleteTurbine"]
            /\ UNCHANGED <<turbines, aggregates, connections, dbTurbines, dbConnections,
                           isLoading, selectedItem>>
            /\ NothingFinished
       ELSE IF outcome = "ok"
       THEN /\ dbTurbines' = {r \in dbTurbines : r.id # op.id}
            /\ turbines' = withoutId(turbines, op.id)
            /\ aggregates' = aggregateEffect(turbines')
            /\ connections' = withoutEndpoint(connections, op.id)
            /\ selectedItem' = NoItem
            /\ isLoading' = FALSE
            /\ Finished(i, op, "success", op.failed)
            /\ UNCHANGED <<dbConnections, dbPowerHistory>>
       ELSE /\ isLoading' = FALSE
            /\ selectedItem' = NoItem
            /\ Finished(i, op, "returned", TRUE)
            /\ UNCHANGED <<turbines, aggregates, connections, dbTurbines, dbConnections,
                           dbPowerHistory>>
    /\ UNCHANGED <<substations, isAddingTurbine, isAddingSubstation,
                   isConnecting, connectingFrom, dbSubstations, dbEvents,
                   nextConnId, userActions, created, nonMapVars>>

DeleteSubstationResponse(i, outcome) ==
    /\ i \in OpIndexes
    /\ ops[i].kind = "deleteSubstation"
    /\ LET op == ops[i] IN
       IF outcome = "throw"
       THEN /\ isLoading' = FALSE
            /\ selectedItem' = NoItem
            /\ Finished(i, op, "threw", TRUE)
            /\ UNCHANGED <<substations, connections, dbSubstations,
                           dbConnections>>
       ELSE IF op.pc = "deleteConnections"
       THEN /\ dbConnections' = IF outcome = "ok"
                   THEN {r \in dbConnections : r.id # op.related[op.k]}
                   ELSE dbConnections
            /\ ops' = [ops EXCEPT
                   ![i].k = op.k + 1,
                   ![i].failed = op.failed \/ outcome = "error",
                   ![i].pc = IF op.k = Len(op.related)
                             THEN "deleteSubstation" ELSE op.pc]
            /\ UNCHANGED <<substations, connections, dbSubstations, isLoading,
                           selectedItem>>
            /\ NothingFinished
       ELSE IF outcome = "ok"
       THEN /\ dbSubstations' = {r \in dbSubstations : r.id # op.id}
            /\ substations' = withoutId(substations, op.id)
            /\ connections' = withoutEndpoint(connections, op.id)
            /\ selectedItem' = NoItem
            /\ isLoading' = FALSE
            /\ Finished(i, op, "success", op.failed)
            /\ UNCHANGED dbConnections
       ELSE /\ isLoading' = FALSE
            /\ selectedItem' = NoItem
            /\ Finished(i, op, "returned", TRUE)
            /\ UNCHANGED <<substations, connections, dbSubstations,
                           dbConnections>>
    /\ UNCHANGED <<turbines, aggregates, isAddingTurbine, isAddingSubstation, isConnecting,
                   connectingFrom, dbTurbines, dbPowerHistory, dbEvents,
                   nextConnId, userActions, created, nonMapVars>>

\* ---------------------------------------------------------------------
\* Specification of the map
\* ---------------------------------------------------------------------
\* power of a created turbine, in tenths of MW (5 + Math.random() * 3)
NewTurbinePowers == {55}

\* the page after fetchData has loaded the three tables and the operator
\* has switched the connect mode on
MapConnectingInit ==
    /\ dbTurbines = {[id |-> "T1", location |-> pointText(<<24, 119>>),
                      power |-> 60, wind_speed |-> 7, temperature |-> 20,
                      humidity |-> 65, status |-> "normal"],
                     [id |-> "T2", location |-> pointText(<<25, 120>>),
                      power |-> 45, wind_speed |-> 10, temperature |-> 23,
                      humidity |-> 70, status |-> "warning"]}
    /\ dbSubstations = {[id |-> "S1", location |-> pointText(<<25, 119>>)]}
    /\ dbConnections = {[id |-> 1, from_id |-> "T1", to_id |-> "S1",
                         from_type |-> "turbine", to_type |-> "substation",
                         status |-> "normal", type |-> "turbine-substation"],
                        [id |-> 2, from_id |-> "T2", to_id |-> "T1",
                         from_type |-> "turbine", to_type |-> "turbine",
                         status |-> "normal", type |-> "turbine-turbine"]}
    /\ dbPowerHistory = {"T1", "T2"}
    /\ dbEvents = <<>>
    /\ nextConnId = 3
    /\ LET ts == RowsInOrder(dbTurbines, TurbineIdOrder)
           ss == RowsInOrder(dbSubstations, SubstationIdOrder)
           cs == RowsInOrder(dbConnections, ConnIdOrder)
       IN /\ turbines = [j \in DOMAIN ts |-> convertToWindTurbine(ts[j])]
          /\ substations = [j \in DOMAIN ss |-> convertToSubstation(ss[j])]
          /\ connections = [j \in DOMAIN cs |-> convertToConnection(cs[j])]
    /\ aggregates = aggregateEffect(turbines)
    /\ selectedItem = NoItem
    /\ isLoading = FALSE
    /\ isAddingTurbine = FALSE
    /\ isAddingSubstation = FALSE
    /\ isConnecting = TRUE
    /\ connectingFrom = NoItem
    /\ ops = <<>>
    /\ userActions = 0
    /\ created = 0
    /\ done = NotDone

Next ==
    \/ \E i \in OpIndexes, o \in StoreOutcomes : FetchDataResponse(i, o)
    \/ ToggleAddTurbine
    \/ ToggleAddSubstation
    \/ ToggleConnect
    \/ ResetAll
    \/ ClosePanel
    \/ \E p \in Positions, w \in NewTurbinePowers : MapClick(p, w)
    \/ \E i \in OpIndexes, o \in StoreOutcomes : CreateTurbineResponse(i, o)
    \/ \E item \in Items : MarkerClick(item)
    \/ \E i \in OpIndexes, o \in StoreOutcomes : AddConnectionResponse(i, o)
    \/ \E item \in Items, p \in Positions : MarkerDrag(item, p)
    \/ \E i \in OpIndexes, o \in StoreOutcomes :
          UpdateTurbinePositionResponse(i, o)
    \/ \E s \in TurbineStatuses : StatusChange(s)
    \/ \E i \in OpIndexes, o \in StoreOutcomes :
          UpdateTurbineStatusResponse(i, o)
    \/ \E c \in DOMAIN connections : ConnectionClick(c)
    \/ \E i \in OpIndexes, o \in StoreOutcomes :
          UpdateConnectionStatusResponse(i, o)
    \/ \E c \in DOMAIN connections : DeleteConnectionCall(c)
    \/ \E i \in OpIndexes, o \in StoreOutcomes : DeleteConnectionResponse(i, o)
    \/ DeleteSelected
    \/ \E i \in OpIndexes, o \in StoreOutcomes : DeleteTurbineResponse(i, o)
    \/ \E i \in OpIndexes, o \in StoreOutcomes : DeleteSubstationResponse(i, o)

\* the steps of a loaded page: fetchData runs on mount only
NextLoaded ==
    \/ ToggleAddTurbine
    \/ ToggleAddSubstation
    \/ ToggleConnect
    \/ ResetAll
    \/ ClosePanel
    \/ \E p \in Positions, w \in NewTurbinePowers : MapClick(p, w)
    \/ \E i \in OpIndexes, o \in StoreOutcomes : CreateTurbineResponse(i, o)
    \/ \E item \in Items : MarkerClick(item)
    \/ \E i \in OpIndexes, o \in StoreOutcomes : AddConnectionResponse(i, o)
    \/ \E item \in Items, p \in Positions : MarkerDrag(item, p)
    \/ \E i \in OpIndexes, o \in StoreOutcomes :
          UpdateTurbinePositionResponse(i, o)
    \/ \E s \in TurbineStatuses : StatusChange(s)
    \/ \E i \in OpIndexes, o \in StoreOutcomes :
          UpdateTurbineStatusResponse(i, o)
    \/ \E c \in DOMAIN connections : ConnectionClick(c)
    \/ \E i \in OpIndexes, o \in StoreOutcomes :
          UpdateConnectionStatusResponse(i, o)
    \/ \E c \in DOMAIN connections : DeleteConnectionCall(c)
    \/ \E i \in OpIndexes, o \in StoreOutcomes : DeleteConnectionResponse(i, o)
    \/ DeleteSelected
    \/ \E i \in OpIndexes, o \in StoreOutcomes : DeleteTurbineResponse(i, o)
    \/ \E i \in OpIndexes, o \in StoreOutcomes : DeleteSubstationResponse(i, o)

\* ---------------------------------------------------------------------
\* SidePanel, SmartMonitoring and MaintenanceAlerts (the alert trigger)
\* ---------------------------------------------------------------------
PanelTurbineIds == {"T1", "T2"}

\* a turbine of the map as the panel receives it; its telemetry is fixed
\* at 3.0 MW and 32 degrees, so its score is 35, 55 or 75 by status
panelTurbine(id, status) ==
    [kind |-> "turbine", id |-> id, status |-> status, power |-> 30,
     temperature |-> 32]

\* a.alert_type === 'health_score' && a.status !== 'completed' &&
\* a.health_score === healthScore, for some a of the list
hasOpenAlertWithScore(alertList, score) ==
    \E k \in DOMAIN alertList :
        /\ alertList[k].alert_type = "health_score"
        /\ alertList[k].status # "completed"
        /\ alertList[k].health_score = score

PanelOp(kind, turbineId, score, alertId, status, gen) ==
    [kind |-> kind, turbine |-> turbineId, score |-> score, alert |-> alertId,
     status |-> status, gen |-> gen]

\* the fetchAlerts of a render: it selects the rows of that render's turbine
fetchAlertsOp(turbineId, gen) == PanelOp("fetch", turbineId, 0, 0, "", gen)

\* the createHealthAlert effect: the insert it issues, if any, given the
\* healthScore prop, the alerts state and the turbineId prop of its render
createHealthAlert(score, alertList, turbineId, gen) ==
    IF score < 60 /\ ~hasOpenAlertWithScore(alertList, score)
    THEN <<PanelOp("insert", turbineId, score, 0, "pending", gen)>>
    ELSE <<>>

\* .eq('turbine_id', turbineId).order('created_at', { ascending: false })
RECURSIVE alertsOfTurbine(_, _)
alertsOfTurbine(rows, turbineId) ==
    IF rows = <<>> THEN <<>>
    ELSE alertsOfTurbine(Tail(rows), turbineId)
         \o (IF Head(rows).turbine_id = turbineId THEN <<Head(rows)>>
             ELSE <<>>)

\* the status the row's button asks for
nextAlertStatus(status) ==
    IF status = "pending" THEN "in_progress" ELSE "completed"

\* ghost: no evaluation returns in this step
NoEval == [turbine |-> "", score |-> 0]

PanelAction ==
    /\ pActions < MaxPanelActions
    /\ pActions' = pActions + 1

AlertInit ==
    /\ pTurbines = [id \in PanelTurbineIds |-> panelTurbine(id, "warning")]
    /\ pSelected = NoItem
    /\ healthScore = 0
    /\ alerts = <<>>
    /\ mountGen = 0
    /\ dbAlerts = <<>>
    /\ pEvals = <<>>
    /\ pOps = <<>>
    /\ lastEval = NoEval
    /\ scoreSource = ""
    /\ pActions = 0
    /\ pStoreFailed = FALSE

\* a row of maintenance_alerts as createHealthAlert inserts it
healthAlertRow(id, turbineId, score) ==
    [id |-> id, turbine_id |-> turbineId, alert_type |-> "health_score",
     status |-> "pending", health_score |-> score]

\* the panel has been opened on T1 and has settled: the alert of the
\* mount (score 0) and the alert of the evaluation (score 55) are stored
\* and listed, nothing is in flight
AlertSettledInit ==
    /\ pTurbines = [id \in PanelTurbineIds |-> panelTurbine(id, "warning")]
    /\ pSelected = panelTurbine("T1", "warning")
    /\ healthScore = 55
    /\ dbAlerts = <<healthAlertRow(1, "T1", 0), healthAlertRow(2, "T1", 55)>>
    /\ alerts = alertsOfTurbine(dbAlerts, "T1")
    /\ mountGen = 1
    /\ pEvals = <<>>
    /\ pOps = <<>>
    /\ lastEval = NoEval
    /\ scoreSource = "T1"
    /\ pActions = 0
    /\ pStoreFailed = FALSE

\* a marker click: setSelectedItem(item).  Opening the panel mounts
\* SmartMonitoring and MaintenanceAlerts (alerts = [], both effects run);
\* changing the turbine re-runs the effects that depend on it
SelectTurbine(id) ==
    /\ PanelAction
    /\ id \in PanelTurbineIds
    /\ pTurbines[id] # pSelected
    /\ pSelected' = pTurbines[id]
    /\ Len(pEvals) < MaxPanelEvals
    /\ pEvals' = Append(pEvals, pTurbines[id])
    /\ IF pSelected = NoItem
       THEN /\ mountGen' = mountGen + 1
            /\ alerts' = <<>>
            /\ pOps' = pOps \o createHealthAlert(healthScore, <<>>, id,
                                                 mountGen + 1)
                            \o <<fetchAlertsOp(id, mountGen + 1)>>
       ELSE IF pSelected.id # id
       THEN /\ pOps' = pOps \o createHealthAlert(healthScore, alerts, id,
                                                 mountGen)
                            \o <<fetchAlertsOp(id, mountGen)>>
            /\ UNCHANGED <<mountGen, alerts>>
       ELSE UNCHANGED <<mountGen, alerts, pOps>>
    /\ Len(pOps') <= MaxPanelOps
    /\ UNCHANGED <<pTurbines, healthScore, dbAlerts, scoreSource,
                   pStoreFailed, nonAlertVars>>
    /\ lastEval' = NoEval

\* Modal onClose: the panel's children unmount
CloseAlertPanel ==
    /\ PanelAction
    /\ pSelected # NoItem
    /\ pSelected' = NoItem
    /\ UNCHANGED <<pTurbines, healthScore, alerts, mountGen, dbAlerts, pEvals,
                   pOps, scoreSource, pStoreFailed, nonAlertVars>>
    /\ lastEval' = NoEval

\* a status change lands in the map's collection (selectedItem keeps the
\* object it was given)
TurbineStatusChanged(id, status) ==
    /\ PanelAction
    /\ id \in PanelTurbineIds
    /\ pTurbines[id].status # status
    /\ pTurbines' = [pTurbines EXCEPT ![id].status = status]
    /\ UNCHANGED <<pSelected, healthScore, alerts, mountGen, dbAlerts, pEvals,
                   pOps, scoreSource, pStoreFailed, nonAlertVars>>
    /\ lastEval' = NoEval

\* toggleSection: SidePanel renders again, SmartMonitoring gets a new
\* onHealthScoreCalculated and its effect evaluates the turbine again
ToggleSection ==
    /\ PanelAction
    /\ pSelected # NoItem
    /\ Len(pEvals) < MaxPanelEvals
    /\ pEvals' = Append(pEvals, pSelected)
    /\ UNCHANGED <<pTurbines, pSelected, healthScore, alerts, mountGen,
                   dbAlerts, pOps, scoreSource, pStoreFailed,
                   nonAlertVars>>
    /\ lastEval' = NoEval

\* calculateHealthScore resolves: onHealthScoreCalculated(result.score) ->
\* setHealthScore(score).  A changed score renders SidePanel again: the
\* createHealthAlert effect runs, and SmartMonitoring evaluates again
EvalReturns(e) ==
    /\ e \in DOMAIN pEvals
    /\ LET score == computeHealth(pEvals[e]).score
           rest == RemoveAt(pEvals, e)
       IN /\ lastEval' = [turbine |-> pEvals[e].id, score |-> score]
          /\ scoreSource' = pEvals[e].id
          /\ healthScore' = score
          /\ IF score # healthScore /\ pSelected # NoItem
             THEN /\ pOps' = pOps \o createHealthAlert(score, alerts,
                                                       pSelected.id, mountGen)
                  /\ pEvals' = Append(rest, pSelected)
             ELSE /\ pOps' = pOps
                  /\ pEvals' = rest
    /\ Len(pOps') <= MaxPanelOps
    /\ UNCHANGED <<pTurbines, pSelected, alerts, mountGen, dbAlerts, pActions,
                   pStoreFailed, nonAlertVars>>

\* the insert of createHealthAlert settles; on success fetchAlerts follows
InsertAlertResponds(k, outcome) ==
    /\ k \in DOMAIN pOps
    /\ pOps[k].kind = "insert"
    /\ IF outcome = "ok"
       THEN /\ dbAlerts' = Append(dbAlerts,
                   healthAlertRow(Len(dbAlerts) + 1, pOps[k].turbine,
                                  pOps[k].score))
            /\ pOps' = [pOps EXCEPT ![k] = fetchAlertsOp(pOps[k].turbine,
                                                         pOps[k].gen)]
            /\ UNCHANGED pStoreFailed
       ELSE /\ pOps' = RemoveAt(pOps, k)
            /\ pStoreFailed' = TRUE
            /\ UNCHANGED dbAlerts
    /\ UNCHANGED <<pTurbines, pSelected, healthScore, alerts, mountGen, pEvals,
                   scoreSource, pActions, nonAlertVars>>
    /\ lastEval' = NoEval

\* fetchAlerts settles: setAlerts(data) on the instance that issued it
FetchAlertsResponds(k, outcome) ==
    /\ k \in DOMAIN pOps
    /\ pOps[k].kind = "fetch"
    /\ pOps' = RemoveAt(pOps, k)
    /\ IF outcome = "ok"
       THEN /\ alerts' = IF pSelected # NoItem /\ pOps[k].gen = mountGen
                         THEN alertsOfTurbine(dbAlerts, pOps[k].turbine)
                         ELSE alerts
            /\ UNCHANGED pStoreFailed
       ELSE /\ pStoreFailed' = TRUE
            /\ UNCHANGED alerts
    /\ UNCHANGED <<pTurbines, pSelected, healthScore, mountGen, dbAlerts,
                   pEvals, scoreSource, pActions, nonAlertVars>>
    /\ lastEval' = NoEval

\* a row's button: updateAlertStatus(alert.id, next status)
AdvanceAlert(j) ==
    /\ PanelAction
    /\ pSelected # NoItem
    /\ j \in DOMAIN alerts
    /\ alerts[j].status # "completed"
    /\ Len(pOps) < MaxPanelOps
    /\ pOps' = Append(pOps, PanelOp("update", pSelected.id, 0, alerts[j].id,
                                    nextAlertStatus(alerts[j].status),
                                    mountGen))
    /\ UNCHANGED <<pTurbines, pSelected, healthScore, alerts, mountGen,
                   dbAlerts, pEvals, scoreSource, pStoreFailed,
                   nonAlertVars>>
    /\ lastEval' = NoEval

\* the update of updateAlertStatus settles; on success fetchAlerts follows
UpdateAlertResponds(k, outcome) ==
    /\ k \in DOMAIN pOps
    /\ pOps[k].kind = "update"
    /\ IF outcome = "ok"
       THEN /\ dbAlerts' = [n \in DOMAIN dbAlerts |->
                   IF dbAlerts[n].id = pOps[k].alert
                   THEN [dbAlerts[n] EXCEPT !.status = pOps[k].status]
                   ELSE dbAlerts[n]]
            /\ pOps' = [pOps EXCEPT ![k] = fetchAlertsOp(pOps[k].turbine,
                                                         pOps[k].gen)]
            /\ UNCHANGED pStoreFailed
       ELSE /\ pOps' = RemoveAt(pOps, k)
            /\ pStoreFailed' = TRUE
            /\ UNCHANGED dbAlerts
    /\ UNCHANGED <<pTurbines, pSelected, healthScore, alerts, mountGen, pEvals,
                   scoreSource, pActions, nonAlertVars>>
    /\ lastEval' = NoEval

AlertOutcomes == {"ok", "error"}

NextAlerts ==
    \/ \E id \in PanelTurbineIds : SelectTurbine(id)
    \/ CloseAlertPanel
    \/ \E id \in PanelTurbineIds, st \in TurbineStatuses :
          TurbineStatusChanged(id, st)
    \/ ToggleSection
    \/ \E e \in DOMAIN pEvals : EvalReturns(e)
    \/ \E k \in DOMAIN pOps, o \in AlertOutcomes : InsertAlertResponds(k, o)
    \/ \E k \in DOMAIN pOps, o \in AlertOutcomes : FetchAlertsResponds(k, o)
    \/ \E j \in DOMAIN alerts : AdvanceAlert(j)
    \/ \E k \in DOMAIN pOps, o \in AlertOutcomes : UpdateAlertResponds(k, o)

\* =====================================================================
\* Side panel: power-history and health-history fetches (SidePanel)
\* =====================================================================
\* debounce(..., 300)
DebounceMs == 300

\* the clock advances between events by one of these amounts (ms)
ClockSteps == {100, 300}

TimeRanges == {"week", "month", "year"}

\* useState<TimeRange>('week'): the value of the first render, which is the
\* one the debounced closure (useCallback with no dependencies) reads
InitialTimeRange == "week"

\* the assets the side panel can be given; S1 has no windSpeed
FetchTurbineIds == {"T1", "T2"}
FetchItemIds == FetchTurbineIds \cup {"S1"}

\* 'windSpeed' in selectedItem
hasWindSpeed(id) == id \in FetchTurbineIds

\* ghost: no response has been dropped
NoDiscard == [request |-> 0, displayed |-> 0]

\* Date.now().toString()
requestIdAt(time) == ToString(time)

isCurrentRequestAlways(current, requestId) == TRUE

\* currentRequest.current === requestId
isCurrentRequest(current, requestId) == current = requestId

FetchInit ==
    /\ fSelected = NoItem
    /\ powerTimeRange = InitialTimeRange
    /\ healthTimeRange = InitialTimeRange
    /\ currentRequest = NoRequest
    /\ now = 0
    /\ debounceTimer = NoTimer
    /\ powerFetches = <<>>
    /\ healthFetches = <<>>
    /\ powerHistory = NoHistory
    /\ healthHistory = NoHistory
    /\ isLoadingHistory = FALSE
    /\ isLoadingHealthHistory = FALSE
    /\ issued = 0
    /\ discarded = NoDiscard
    /\ fActions = 0

FetchAction ==
    /\ fActions < MaxFetchActions
    /\ fActions' = fActions + 1

\* the effect on [selectedItem?.id, powerTimeRange, healthTimeRange]: its
\* cleanup clears the ref, then a turbine makes a debounced call, which
\* restarts the 300 ms wait with the new arguments
effectRuns(selected) ==
    /\ currentRequest' = NoRequest
    /\ debounceTimer' =
          IF selected # NoItem /\ hasWindSpeed(selected.id)
          THEN [due |-> now + DebounceMs, turbineId |-> selected.id]
          ELSE debounceTimer

\* a marker click gives the panel another asset
SelectItem(id) ==
    /\ FetchAction
    /\ id \in FetchItemIds
    /\ IF fSelected = NoItem THEN TRUE ELSE fSelected.id # id
    /\ fSelected' = [kind |-> IF hasWindSpeed(id) THEN "turbine"
                              ELSE "substation", id |-> id]
    /\ effectRuns(fSelected')
    /\ UNCHANGED <<powerTimeRange, healthTimeRange, now, powerFetches,
                   healthFetches, powerHistory, healthHistory,
                   isLoadingHistory, isLoadingHealthHistory, issued,
                   discarded, nonFetchVars>>

\* Modal onClose: setSelectedItem(null)
CloseFetchPanel ==
    /\ FetchAction
    /\ fSelected # NoItem
    /\ fSelected' = NoItem
    /\ effectRuns(NoItem)
    /\ UNCHANGED <<powerTimeRange, healthTimeRange, now, powerFetches,
                   healthFetches, powerHistory, healthHistory,
                   isLoadingHistory, isLoadingHealthHistory, issued,
                   discarded, nonFetchVars>>

\* onTimeRangeChange={setPowerTimeRange}
SetPowerTimeRange(range) ==
    /\ FetchAction
    /\ fSelected # NoItem
    /\ range \in TimeRanges \ {powerTimeRange}
    /\ powerTimeRange' = range
    /\ effectRuns(fSelected)
    /\ UNCHANGED <<fSelected, healthTimeRange, now, powerFetches,
                   healthFetches, powerHistory, healthHistory,
                   isLoadingHistory, isLoadingHealthHistory, issued,
                   discarded, nonFetchVars>>

\* onTimeRangeChange={setHealthTimeRange}
SetHealthTimeRange(range) ==
    /\ FetchAction
    /\ fSelected # NoItem
    /\ range \in TimeRanges \ {healthTimeRange}
    /\ healthTimeRange' = range
    /\ effectRuns(fSelected)
    /\ UNCHANGED <<fSelected, powerTimeRange, now, powerFetches,
                   healthFetches, powerHistory, healthHistory,
                   isLoadingHistory, isLoadingHealthHistory, issued,
                   discarded, nonFetchVars>>

\* time passes
ClockAdvances(ms) ==
    /\ ms \in ClockSteps
    /\ now + ms <= MaxClock
    /\ now' = now + ms
    /\ UNCHANGED <<fSelected, powerTimeRange, healthTimeRange, currentRequest,
                   debounceTimer, powerFetches, healthFetches, powerHistory,
                   healthHistory, isLoadingHistory, isLoadingHealthHistory,
                   issued, discarded, fActions, nonFetchVars>>

\* the debounced function runs, no earlier than 300 ms after its last
\* call: fetchPowerHistory(turbineId) up to its await, then
\* fetchHealthHistory(turbineId) up to its await
DebouncedFetchData ==
    /\ debounceTimer # NoTimer
    /\ now >= debounceTimer.due
    /\ Len(powerFetches) < MaxInFlightFetches
    /\ debounceTimer' = NoTimer
    /\ currentRequest' = requestIdAt(now)
    /\ isLoadingHistory' = TRUE
    /\ issued' = issued + 1
    /\ powerFetches' = Append(powerFetches,
          [requestId |-> requestIdAt(now), request |-> issued + 1,
           turbineId |-> debounceTimer.turbineId,
           range |-> InitialTimeRange])
    /\ isLoadingHealthHistory' = TRUE
    /\ healthFetches' = Append(healthFetches,
          [request |-> issued + 1, turbineId |-> debounceTimer.turbineId,
           range |-> InitialTimeRange])
    /\ UNCHANGED <<fSelected, powerTimeRange, healthTimeRange, now,
                   powerHistory, healthHistory, discarded, fActions,
                   nonFetchVars>>

\* the power_history select of fetchPowerHistory settles
PowerHistoryResponse(i, outcome) ==
    /\ i \in DOMAIN powerFetches
    /\ powerFetches' = RemoveAt(powerFetches, i)
    /\ LET fetch == powerFetches[i] IN
       IF ~isCurrentRequest(currentRequest, fetch.requestId)
       THEN /\ discarded' = [request |-> fetch.request,
                             displayed |-> powerHistory.request]
            /\ UNCHANGED <<powerHistory, isLoadingHistory>>
       ELSE /\ powerHistory' =
                  IF outcome = "ok"
                  THEN [request |-> fetch.request,
                        turbineId |-> fetch.turbineId, range |-> fetch.range]
                  ELSE powerHistory
            /\ isLoadingHistory' = FALSE
            /\ UNCHANGED discarded
    /\ UNCHANGED <<fSelected, powerTimeRange, healthTimeRange, currentRequest,
                   now, debounceTimer, healthFetches, healthHistory,
                   isLoadingHealthHistory, issued, fActions, nonFetchVars>>

\* the health_history select of fetchHealthHistory settles
HealthHistoryResponse(i, outcome) ==
    /\ i \in DOMAIN healthFetches
    /\ healthFetches' = RemoveAt(healthFetches, i)
    /\ healthHistory' =
          IF outcome = "ok"
          THEN [request |-> healthFetches[i].request,
                turbineId |-> healthFetches[i].turbineId,
                range |-> healthFetches[i].range]
          ELSE healthHistory
    /\ isLoadingHealthHistory' = FALSE
    /\ UNCHANGED <<fSelected, powerTimeRange, healthTimeRange, currentRequest,
                   now, debounceTimer, powerFetches, powerHistory,
                   isLoadingHistory, issued, discarded, fActions,
                   nonFetchVars>>

FetchOutcomes == {"ok", "error"}

NextFetch ==
    \/ \E id \in FetchItemIds : SelectItem(id)
    \/ CloseFetchPanel
    \/ \E r \in TimeRanges : SetPowerTimeRange(r)
    \/ \E r \in TimeRanges : SetHealthTimeRange(r)
    \/ \E ms \in ClockSteps : ClockAdvances(ms)
    \/ DebouncedFetchData
    \/ \E i \in DOMAIN powerFetches, o \in FetchOutcomes :
          PowerHistoryResponse(i, o)
    \/ \E i \in DOMAIN healthFetches, o \in FetchOutcomes :
          HealthHistoryResponse(i, o)

\* the alert variables are not used by the other specifications
AlertIdle ==
    /\ pTurbines = [id \in PanelTurbineIds |-> panelTurbine(id, "warning")]
    /\ pSelected = NoItem
    /\ healthScore = 0
    /\ alerts = <<>>
    /\ mountGen = 0
    /\ dbAlerts = <<>>
    /\ pEvals = <<>>
    /\ pOps = <<>>
    /\ lastEval = NoEval
    /\ scoreSource = ""
    /\ pActions = 0
    /\ pStoreFailed = FALSE

\* the fetch variables are not used by the other specifications
FetchIdle ==
    /\ fSelected = NoItem
    /\ powerTimeRange = "week"
    /\ healthTimeRange = "week"
    /\ currentRequest = NoRequest
    /\ now = 0
    /\ debounceTimer = NoTimer
    /\ powerFetches = <<>>
    /\ healthFetches = <<>>
    /\ powerHistory = NoHistory
    /\ healthHistory = NoHistory
    /\ isLoadingHistory = FALSE
    /\ isLoadingHealthHistory = FALSE
    /\ issued = 0
    /\ discarded = NoDiscard
    /\ fActions = 0

\* the score variables are not used by the map
ScoreIdle ==
    /\ evalTurbine = [id |-> "T1", status |-> "normal", power |-> 80,
                      temperature |-> 30, windSpeed |-> 5, humidity |-> 60,
                      events |-> <<>>]
    /\ evalPc = "idle"
    /\ evalOutcome = "none"
    /\ evalResult = NoResult
    /\ dbHealthHistory = <<>>
    /\ evalCount = 0
    /\ prevResult = NoResult

\* the map variables are not used by the scorer
MapIdle ==
    /\ turbines = <<>>
    /\ substations = <<>>
    /\ connections = <<>>
    /\ aggregates = aggregateEffect(<<>>)
    /\ selectedItem = NoItem
    /\ isLoading = FALSE
    /\ isAddingTurbine = FALSE
    /\ isAddingSubstation = FALSE
    /\ isConnecting = FALSE
    /\ connectingFrom = NoItem
    /\ dbTurbines = {}
    /\ dbSubstations = {}
    /\ dbConnections = {}
    /\ dbPowerHistory = {}
    /\ dbEvents = <<>>
    /\ nextConnId = 1
    /\ ops = <<>>
    /\ userActions = 0
    /\ created = 0
    /\ done = NotDone

Init == MapInit /\ ScoreIdle /\ AlertIdle /\ FetchIdle

Spec == Init /\ [][Next]_vars

InitConnecting == MapConnectingInit /\ ScoreIdle /\ AlertIdle /\ FetchIdle

SpecConnecting == InitConnecting /\ [][NextLoaded]_vars

InitScore == ScoreInit /\ MapIdle /\ AlertIdle /\ FetchIdle

SpecScore == InitScore /\ [][NextScore]_vars

InitAlerts == AlertInit /\ ScoreIdle /\ MapIdle /\ FetchIdle

SpecAlerts == InitAlerts /\ [][NextAlerts]_vars

InitAlertsSettled == AlertSettledInit /\ ScoreIdle /\ MapIdle /\ FetchIdle

SpecAlertsSettled == InitAlertsSettled /\ [][NextAlerts]_vars

InitFetch == FetchInit /\ ScoreIdle /\ MapIdle /\ AlertIdle

SpecFetch == InitFetch /\ [][NextFetch]_vars

\* every power_history select in flight is answered in the end
PowerFetchesAnswered ==
    \E i \in 1..MaxInFlightFetches, o \in FetchOutcomes :
        PowerHistoryResponse(i, o)

SpecFetchFair == SpecFetch /\ WF_vars(PowerFetchesAnswered)

\* =====================================================================
\* Properties
\* =====================================================================

\* ---------------------------------------------------------------------
\* HealthScorer: the score formula
\* ---------------------------------------------------------------------
C1_StatusDeduction(status) ==
    CASE status = "error" -> 40 [] status = "warning" -> 20 [] OTHER -> 0

\* power is in tenths of a MW: power/8.0*100 = power * 125 / 100
C1_EfficiencyDeduction(power) ==
    CASE power * 125 < 6000 -> 20 [] power * 125 < 8000 -> 10 [] OTHER -> 0

C1_TemperatureDeduction(temperature) ==
    CASE temperature > 35 -> 15 [] temperature > 30 -> 5 [] OTHER -> 0

\* C1 (SpecScore). For every status, power >= 0 and temperature, the score
\* returned by calculateHealthScore is 100 minus the status deduction
\* (40 error, 20 warning, 0 normal), the efficiency deduction (20 when
\* power/8.0*100 < 60, else 10 when < 80, else 0) and the temperature
\* deduction (15 above 35, else 5 above 30, else 0); the status is good iff
\* score >= 80, warning iff 60 <= score < 80, critical iff score < 60.
C1_ScoreFormula ==
    evalPc = "returned" =>
        LET expected == 100 - C1_StatusDeduction(evalTurbine.status)
                            - C1_EfficiencyDeduction(evalTurbine.power)
                            - C1_TemperatureDeduction(evalTurbine.temperature)
        IN /\ evalResult.score = expected
           /\ (evalResult.status = "good") <=> (evalResult.score >= 80)
           /\ (evalResult.status = "warning") <=>
                  (evalResult.score >= 60 /\ evalResult.score < 80)
           /\ (evalResult.status = "critical") <=> (evalResult.score < 60)

\* an evaluation in which all three checks deduct: 100 - 40 - 20 - 15
C1_Witness ==
    /\ evalPc = "returned"
    /\ evalTurbine.status = "error"
    /\ evalTurbine.power = 0
    /\ evalTurbine.temperature > 35
    /\ evalResult.score = 25
    /\ evalResult.status = "critical"

\* ---------------------------------------------------------------------
\* HealthScorer: range, issues and determinism of the result
\* ---------------------------------------------------------------------
C11_SummedDeductions ==
    C1_StatusDeduction(evalTurbine.status)
        + C1_EfficiencyDeduction(evalTurbine.power)
        + C1_TemperatureDeduction(evalTurbine.temperature)

\* C11 (SpecScore): for every input the score returned by
\* calculateHealthScore lies in [0, 100]; it is never negative, and it is
\* 0 whenever the summed deductions exceed 100.
C11_ScoreInRange ==
    evalPc = "returned" =>
        /\ evalResult.score >= 0
        /\ evalResult.score <= 100
        /\ C11_SummedDeductions > 100 => evalResult.score = 0

\* the lowest score an input reaches has been returned and recorded
C11_Witness ==
    /\ evalPc = "returned"
    /\ C11_SummedDeductions = 75
    /\ evalResult.score = 25
    /\ evalOutcome = "ok"
    /\ dbHealthHistory[Len(dbHealthHistory)].health_score = 25

\* the check an issue text belongs to: 1 status, 2 efficiency, 3 temperature
C12_CheckOf(issue) ==
    CASE issue \in {"Turbine in error state", "Turbine needs maintenance"} -> 1
      [] issue \in {"Low power generation efficiency",
                    "Reduced power generation"} -> 2
      [] issue \in {"High temperature detected",
                    "Temperature slightly elevated"} -> 3
      [] OTHER -> 0

\* the checks that deduct for the turbine, in the order status,
\* efficiency, temperature
C12_DeductingChecks(turbine) ==
    (IF C1_StatusDeduction(turbine.status) # 0 THEN <<1>> ELSE <<>>)
    \o (IF C1_EfficiencyDeduction(turbine.power) # 0 THEN <<2>> ELSE <<>>)
    \o (IF C1_TemperatureDeduction(turbine.temperature) # 0 THEN <<3>>
        ELSE <<>>)

\* C12 (SpecScore): the issues list returned by calculateHealthScore has
\* exactly one entry per check that made a non-zero deduction, in the order
\* status issue, efficiency issue, temperature issue, and is empty when no
\* deduction applies (status normal, power 8.0, temperature <= 30).
C12_IssuesInCheckOrder ==
    evalPc = "returned" =>
        /\ [k \in DOMAIN evalResult.issues |->
               C12_CheckOf(evalResult.issues[k])]
              = C12_DeductingChecks(evalTurbine)
        /\ (/\ evalTurbine.status = "normal"
            /\ evalTurbine.power = ExpectedPowerTenths
            /\ evalTurbine.temperature <= 30) => evalResult.issues = <<>>

\* a normal turbine for which the efficiency and the temperature check
\* deduct: two issues, the status issue left out
C12_Witness ==
    /\ evalPc = "returned"
    /\ evalTurbine.status = "normal"
    /\ evalResult.issues = <<"Reduced power generation",
                             "High temperature detected">>

\* C13 (SpecScore): two evaluations of calculateHealthScore whose turbines
\* agree on status, power and temperature return the same {score, status,
\* issues}, whatever the turbines' id, wind speed, humidity and events and
\* whatever the state or the failure of the store: an evaluation returns
\* what the evaluation before it returned.
C13_SameInputsSameResult ==
    (evalPc = "returned" /\ evalCount >= 2) => evalResult = prevResult

\* a second evaluation, of a turbine with another id, wind speed and event
\* list, whose insert failed after the insert of the first had succeeded
C13_Witness ==
    /\ evalPc = "returned"
    /\ evalCount = 2
    /\ evalTurbine.id = "T2"
    /\ evalTurbine.windSpeed = 12
    /\ evalTurbine.events # <<>>
    /\ evalOutcome = "error"
    /\ Len(dbHealthHistory) = 1
    /\ dbHealthHistory[1].turbine_id = "T1"
    /\ evalResult.status = "warning"

\* ---------------------------------------------------------------------
\* Position encoding
\* ---------------------------------------------------------------------
\* C15 (Spec): the position encoding round-trips with the coordinate flip:
\* whenever turbine creation or updateTurbinePosition writes the point text
\* of a (latitude, longitude) pair p to the location column of a
\* wind_turbines row, parsePointString of that text is p.
C15_PointTextRoundTrips ==
    [][\A r \in dbTurbines' :
          (\A q \in dbTurbines : q.id # r.id \/ q.location # r.location)
          => \E i \in DOMAIN ops :
                /\ ops[i].id = r.id
                /\ \/ /\ ops[i].kind = "createTurbine"
                      /\ parsePointString(r.location) = ops[i].arg.position
                   \/ /\ ops[i].kind = "updateTurbinePosition"
                      /\ parsePointString(r.location) = ops[i].arg]_vars

\* a drag to a position of negative latitude has been written to the store
C15_Witness ==
    /\ done.op.kind = "updateTurbinePosition"
    /\ done.result = "success"
    /\ done.op.arg = <<-25, 120>>
    /\ \E r \in dbTurbines :
          /\ r.id = done.op.id
          /\ r.location = <<"(", "1", "2", "0", ",", "-", "2", "5", ")">>
          /\ parsePointString(r.location) = <<-25, 120>>

\* ---------------------------------------------------------------------
\* Connections and their endpoints
\* ---------------------------------------------------------------------
\* the page of MapConnectingInit, as Spec reaches it
C18_ConnectingReached ==
    /\ Len(turbines) = 2
    /\ Len(substations) = 1
    /\ Len(connections) = 2
    /\ aggregates = aggregateEffect(turbines)
    /\ selectedItem = NoItem
    /\ ~isLoading
    /\ ~isAddingTurbine
    /\ ~isAddingSubstation
    /\ isConnecting
    /\ connectingFrom = NoItem
    /\ ops = <<>>
    /\ nextConnId = 3
    /\ Cardinality(dbTurbines) = 2
    /\ Cardinality(dbConnections) = 2
    /\ dbPowerHistory = {"T1", "T2"}
    /\ dbEvents = <<>>

\* C18 (SpecConnecting): in every reachable state every connection of the
\* in-memory collection has both endpoints in the in-memory turbine or
\* substation collections, whatever the interleaving of addConnection
\* with deleteTurbine, deleteSubstation and the reset.
C18_NoDanglingConnection ==
    \A c \in DOMAIN connections :
        /\ connections[c].from \in SeqIds(turbines) \cup SeqIds(substations)
        /\ connections[c].to \in SeqIds(turbines) \cup SeqIds(substations)

\* ---------------------------------------------------------------------
\* Status changes and their event rows
\* ---------------------------------------------------------------------
\* this step ends an updateTurbineStatus whose update of the status column
\* succeeded and changed the status the page was showing
C19_StatusChangeEnds ==
    /\ done'.op.kind = "updateTurbineStatus"
    /\ done'.op.pc = "insertEvent"
    /\ \E r \in dbTurbines' :
          r.id = done'.op.id /\ r.status = done'.op.arg
    /\ \E j \in DOMAIN turbines :
          turbines[j].id = done'.op.id /\ turbines[j].status # done'.op.arg

\* C19 (Spec): every updateTurbineStatus that ends after changing the
\* status column has added exactly one turbine_events row, for that
\* turbine; and an updateTurbineStatus adds an event row only after its
\* status update succeeded.
C19_StatusChangeHasEvent ==
    [][/\ C19_StatusChangeEnds
          => dbEvents' = Append(dbEvents, statusEventRow(done'.op.id,
                                                         done'.op.arg))
       /\ (dbEvents' # dbEvents /\ done'.op.kind = "updateTurbineStatus")
          => done'.op.pc = "insertEvent"]_vars

\* ---------------------------------------------------------------------
\* Order of the deletes of deleteTurbine
\* ---------------------------------------------------------------------
\* C20 (Spec): deleteTurbine(id) deletes the turbine row only after it has
\* issued, in this order, the deletes of the connections of id, of its
\* health history, of its power history and of its events.
C20_ChildrenDeletedFirst ==
    [][\A i \in DOMAIN ops :
          (/\ ops[i].kind = "deleteTurbine"
           /\ done'.op = ops[i]
           /\ \E r \in dbTurbines \ dbTurbines' : r.id = ops[i].id)
          => deletesIssuedBefore(ops[i].pc) =
                <<"connections", "health_history", "power_history",
                  "turbine_events">>]_vars

\* ---------------------------------------------------------------------
\* The selected item and the turbine collection
\* ---------------------------------------------------------------------
\* C23 (Spec): in every state with no status update in flight, the
\* selected turbine carries the status of the turbine with the same id in
\* the in-memory collection, so that the next evaluation of the selected
\* turbine uses the status a successful change has set.
C23_SelectedStatusIsCurrent ==
    (/\ selectedItem.kind = "turbine"
     /\ \A i \in DOMAIN ops : ops[i].kind # "updateTurbineStatus")
    => \A j \in DOMAIN turbines :
          turbines[j].id = selectedItem.id
          => selectedItem.status = turbines[j].status

\* ---------------------------------------------------------------------
\* Drag of a substation marker
\* ---------------------------------------------------------------------
\* C24 (Spec): when the position update started by dragging a substation
\* marker to p ends with a successful store write, the substation's
\* in-memory position is p and its stored location is the point text of p;
\* when the store write fails, its position is unchanged.
C24_SubstationDragMoves ==
    [][\A j \in DOMAIN substations :
          (/\ done'.op.kind = "updateTurbinePosition"
           /\ done'.op.id = substations[j].id)
          => IF done'.result = "success"
             THEN /\ \E k \in DOMAIN substations' :
                        /\ substations'[k].id = done'.op.id
                        /\ substations'[k].position = done'.op.arg
                  /\ \E r \in dbSubstations' :
                        /\ r.id = done'.op.id
                        /\ r.location = pointText(done'.op.arg)
             ELSE substations' = substations]_vars

\* ---------------------------------------------------------------------
\* The status cycle of a connection
\* ---------------------------------------------------------------------
\* C25 (Spec): every click on a connection whose store update succeeds
\* advances the status of that connection, in memory and in the store, by
\* exactly one step of the cycle normal -> warning -> error -> normal,
\* also when the click was made before an earlier update had completed.
C25_ClickAdvancesOneStep ==
    [][\A j \in DOMAIN connections :
          (/\ done'.op.kind = "updateConnectionStatus"
           /\ done'.result = "success"
           /\ done'.op.conn = connections[j].id)
          => /\ connections'[j].status =
                   nextConnectionStatus(connections[j].status)
             /\ \A r \in dbConnections, q \in dbConnections' :
                   (r.id = done'.op.conn /\ q.id = r.id)
                   => q.status = nextConnectionStatus(r.status)]_vars

\* ---------------------------------------------------------------------
\* Creation of a connection
\* ---------------------------------------------------------------------
\* this step starts an addConnection
C26_ConnectionRequested ==
    /\ Len(ops') = Len(ops) + 1
    /\ ops'[Len(ops')].kind = "addConnection"

\* C26 (Spec): a connection is requested only by the click on a second,
\* distinct asset while connect mode is on and a first asset is pending:
\* the request goes from the pending asset to another one with status
\* normal, and it clears the pending asset and switches connect mode off;
\* a step that requests nothing and leaves connect mode on (such as a
\* click on the pending asset itself) leaves the pending asset unchanged;
\* the connection that is added has status normal and distinct endpoints.
C26_ConnectionNeedsTwoAssets ==
    [][/\ C26_ConnectionRequested
          => LET request == ops'[Len(ops')].arg IN
             /\ isConnecting
             /\ connectingFrom # NoItem
             /\ request.from_id = connectingFrom.id
             /\ request.to_id # request.from_id
             /\ request.to_id = selectedItem'.id
             /\ request.status = "normal"
             /\ connectingFrom' = NoItem
             /\ ~isConnecting'
       /\ (isConnecting /\ connectingFrom # NoItem /\ isConnecting'
           /\ ~C26_ConnectionRequested)
          => connectingFrom' = connectingFrom
       /\ Len(connections') > Len(connections)
          => LET added == connections'[Len(connections')] IN
             /\ added.status = "normal"
             /\ added.from # added.to]_vars

\* a connection between two distinct assets has been added, connect mode
\* is off and no first asset is pending
C26_Witness ==
    /\ done.op.kind = "addConnection"
    /\ done.result = "success"
    /\ ~isConnecting
    /\ connectingFrom = NoItem
    /\ Len(connections) = 3
    /\ connections[3].from = done.op.arg.from_id
    /\ connections[3].to = selectedItem.id
    /\ connections[3].status = "normal"

\* ---------------------------------------------------------------------
\* The shared loading flag
\* ---------------------------------------------------------------------
\* the operations that raise the loading flag when they start
C27_LoadingOps ==
    {"updateTurbineStatus", "addConnection", "updateConnectionStatus",
     "deleteTurbine", "deleteSubstation", "deleteConnection"}

\* C27 (Spec): isLoading is true in every state in which at least one of
\* updateTurbineStatus, addConnection, updateConnectionStatus,
\* deleteTurbine, deleteSubstation or deleteConnection is in flight, also
\* when two of them overlap.
C27_LoadingWhileInFlight ==
    (\E i \in DOMAIN ops : ops[i].kind \in C27_LoadingOps) => isLoading

\* ---------------------------------------------------------------------
\* The editing modes
\* ---------------------------------------------------------------------
\* C30 (Spec): in every reachable state at most one of the three editing
\* modes add-turbine, add-substation and connect is active.
C30_AtMostOneMode ==
    /\ ~(isAddingTurbine /\ isAddingSubstation)
    /\ ~(isAddingTurbine /\ isConnecting)
    /\ ~(isAddingSubstation /\ isConnecting)

\* ---------------------------------------------------------------------
\* Aggregates of the turbine collection
\* ---------------------------------------------------------------------
\* reference count: the turbines of the collection that have a status
C14_CountWith(status) ==
    Cardinality({j \in DOMAIN turbines : turbines[j].status = status})

\* reference sum of a field, taken over the index set in no fixed order
RECURSIVE C14_SumOver(_, _)
C14_SumOver(indices, field) ==
    IF indices = {} THEN 0
    ELSE LET j == CHOOSE k \in indices : TRUE IN
         turbines[j][field] + C14_SumOver(indices \ {j}, field)

\* the stored quotient sum/over equals the reference sum divided by the
\* number of turbines, and is 0 for the empty collection
C14_IsAverage(average, field) ==
    /\ average.over # 0
    /\ IF Len(turbines) = 0
       THEN average.sum = 0
       ELSE average.sum * Len(turbines) =
                C14_SumOver(DOMAIN turbines, field) * average.over

\* C14 (Spec): in every reachable state, after any sequence of loads,
\* additions, status changes, deletes and resets, the displayed aggregates
\* equal a reference reduction over the current turbine collection: the
\* total is its length, the normal, warning and error counts count each
\* turbine once and sum to the total, the total power is the sum of the
\* powers, and each average is the sum divided by the count, 0 when empty.
C14_AggregatesMatchCollection ==
    LET counts == getTurbineStatusCounts(turbines) IN
    /\ \A status \in {"normal", "warning", "error"} :
          counts[status] = C14_CountWith(status)
    /\ counts.normal + counts.warning + counts.error = Len(turbines)
    /\ aggregates.totalPower = C14_SumOver(DOMAIN turbines, "power")
    /\ C14_IsAverage(aggregates.averageWindSpeed, "windSpeed")
    /\ C14_IsAverage(aggregates.averageTemperature, "temperature")
    /\ C14_IsAverage(aggregates.averageHumidity, "humidity")

\* a status change has completed on a loaded collection of mixed statuses
C14_Witness ==
    /\ done.op.kind = "updateTurbineStatus"
    /\ done.result = "success"
    /\ Len(turbines) >= 2
    /\ aggregates.totalPower > 0
    /\ getTurbineStatusCounts(turbines).normal < Len(turbines)

\* ---------------------------------------------------------------------
\* Alert lifecycle
\* ---------------------------------------------------------------------
\* the panel of AlertSettledInit, as SpecAlerts reaches it
C16_SettledPanelReached ==
    /\ pSelected = panelTurbine("T1", "warning")
    /\ healthScore = 55
    /\ dbAlerts = <<healthAlertRow(1, "T1", 0), healthAlertRow(2, "T1", 55)>>
    /\ alerts = alertsOfTurbine(dbAlerts, "T1")
    /\ mountGen = 1
    /\ pEvals = <<>>
    /\ pOps = <<>>
    /\ ~pStoreFailed

\* C16 (SpecAlertsSettled): the stored status of every maintenance alert
\* only moves forward along pending -> in_progress -> completed: every
\* step that changes the status of a stored alert takes it from pending to
\* in_progress or from in_progress to completed.
C16_StatusOnlyAdvances ==
    [][\A n \in DOMAIN dbAlerts :
          /\ n \in DOMAIN dbAlerts'
          /\ dbAlerts'[n].status # dbAlerts[n].status
             => <<dbAlerts[n].status, dbAlerts'[n].status>> \in
                   {<<"pending", "in_progress">>,
                    <<"in_progress", "completed">>}]_vars

\* the scores calculateHealthScore returns for a turbine of the panel, over
\* the statuses the turbine can have
C17_ScoresFor(turbineId) ==
    {computeHealth(panelTurbine(turbineId, status)).score :
        status \in TurbineStatuses}

\* C17 (SpecAlerts): every health_score alert inserted for a turbine T
\* records a score that calculateHealthScore returned for T and that is
\* below 60; none records the placeholder score the panel starts with.
C17_AlertScoreWasComputed ==
    [][Len(dbAlerts') > Len(dbAlerts)
       => LET row == dbAlerts'[Len(dbAlerts')] IN
          /\ row.health_score < 60
          /\ row.health_score \in C17_ScoresFor(row.turbine_id)]_vars

\* ---------------------------------------------------------------------
\* Power-history fetches
\* ---------------------------------------------------------------------
\* C9 (SpecFetch): only the response of the most recently issued
\* power-history fetch is ever applied to the displayed power history: a
\* step that changes powerHistory installs the data of the fetch issued
\* last, in any order of completions.
C9_OnlyLatestResponseApplied ==
    [][powerHistory' # powerHistory =>
          powerHistory'.request = issued]_vars

\* the response of fetch 1 arrived while the data of fetch 2 was displayed,
\* was dropped, and the data of fetch 2 is still displayed
C9_Witness ==
    /\ issued = 2
    /\ discarded = [request |-> 1, displayed |-> 2]
    /\ powerHistory.request = 2
    /\ powerFetches = <<>>

\* C28 (SpecFetchFair): the loading state of the power chart always ends:
\* whenever isLoadingHistory is true, it is false again later, or a
\* debounced fetch is waiting to be issued.
C28_LoadingEnds ==
    isLoadingHistory ~> (~isLoadingHistory \/ debounceTimer # NoTimer)

\* C29 (SpecFetch): every fetch the debounced call issues queries the
\* window of the time range selected at that moment: the power-history
\* fetch uses powerTimeRange and the health-history fetch healthTimeRange.
C29_FetchUsesSelectedRange ==
    [][issued' = issued + 1
       => /\ powerFetches'[Len(powerFetches')].range = powerTimeRange
          /\ healthFetches'[Len(healthFetches')].range = healthTimeRange]_vars

\* ---------------------------------------------------------------------
\* Health history records
\* ---------------------------------------------------------------------
\* C22 (SpecScore): every evaluation whose health_history insert succeeds
\* appends exactly one record, tagged with the id of the evaluated turbine
\* and carrying the score and status the evaluation returns; no step
\* modifies or removes a record that is already stored.
C22_OneRecordPerEvaluation ==
    [][/\ Len(dbHealthHistory') >= Len(dbHealthHistory)
       /\ SubSeq(dbHealthHistory', 1, Len(dbHealthHistory)) = dbHealthHistory
       /\ (evalPc = "awaitInsert" /\ evalOutcome' = "ok")
          => /\ Len(dbHealthHistory') = Len(dbHealthHistory) + 1
             /\ LET row == dbHealthHistory'[Len(dbHealthHistory')] IN
                /\ row.turbine_id = evalTurbine.id
                /\ row.health_score = evalResult'.score
                /\ row.status = evalResult'.status
       /\ (evalPc = "awaitInsert" /\ evalOutcome' # "ok")
          => dbHealthHistory' = dbHealthHistory]_vars

\* two evaluations have stored their records, the second for another
\* turbine and with a temperature deduction
C22_Witness ==
    /\ evalPc = "returned"
    /\ evalOutcome = "ok"
    /\ Len(dbHealthHistory) = 2
    /\ dbHealthHistory[1].turbine_id = "T1"
    /\ dbHealthHistory[2].turbine_id = "T2"
    /\ dbHealthHistory[2].health_score = evalResult.score
    /\ checkTemperature(evalTurbine.temperature).deduction > 0
    /\ evalResult.status = "critical"

\* C21 (SpecFetch): only the response of the most recently issued
\* health-history fetch is applied to the displayed health history: a step
\* that changes healthHistory installs the data of the fetch issued last,
\* and the response of a superseded fetch is dropped.
C21_OnlyLatestHealthResponseApplied ==
    [][healthHistory' # healthHistory =>
          healthHistory'.request = issued]_vars

\* ---------------------------------------------------------------------
\* C10 (SpecScore). Once the health_history insert has settled with an
\* error result or a thrown exception, calculateHealthScore has returned,
\* and what it returned is what it returns when the insert succeeds.
\* ---------------------------------------------------------------------
C10_AppendFailureStillReturns ==
    evalOutcome \in {"error", "throw"} =>
        /\ evalPc = "returned"
        /\ evalResult = returnAfterInsert(evalTurbine, "ok").result

\* the insert threw, nothing was appended, and a critical score came back
C10_Witness ==
    /\ evalOutcome = "throw"
    /\ evalPc = "returned"
    /\ dbHealthHistory = <<>>
    /\ evalResult.status = "critical"

\* ---------------------------------------------------------------------
\* Alerts: an open health_score alert of the turbine with the score
\* ---------------------------------------------------------------------
hasOpenAlertInStore(rows, turbineId, score) ==
    \E n \in DOMAIN rows :
        /\ rows[n].turbine_id = turbineId
        /\ rows[n].alert_type = "health_score"
        /\ rows[n].status # "completed"
        /\ rows[n].health_score = score

\* the step appends to maintenance_alerts a row (T, s), where s is the
\* panel's score and the result of evaluating T; no store call has failed
C2_AlertCreated ==
    /\ ~pStoreFailed
    /\ Len(dbAlerts') = Len(dbAlerts) + 1
    /\ dbAlerts'[Len(dbAlerts')].turbine_id = scoreSource
    /\ dbAlerts'[Len(dbAlerts')].health_score = healthScore

\* C2 (SpecAlerts): while the store holds for turbine T an alert with
\* alert_type = health_score, status # completed and health_score = s, an
\* evaluation of T that scores s creates no new alert: no step appends a
\* row (T, s) to maintenance_alerts when the panel's score s is the result
\* of evaluating T and the store already holds such a row.
C2_NoDuplicateOpenAlert ==
    [][C2_AlertCreated =>
          ~hasOpenAlertInStore(dbAlerts, scoreSource, healthScore)]_vars

insertInFlight(opList, turbineId, score) ==
    \E k \in DOMAIN opList :
        /\ opList[k].kind = "insert"
        /\ opList[k].turbine = turbineId
        /\ opList[k].score = score
        /\ opList[k].status = "pending"

\* an evaluation of the displayed turbine returns a score below 60 for
\* which the store holds no open alert and no insert is on its way; no
\* store call has failed so far
C3_EvaluationNeedsAlert ==
    /\ lastEval' # NoEval
    /\ pSelected # NoItem
    /\ lastEval'.turbine = pSelected.id
    /\ lastEval'.score < 60
    /\ ~pStoreFailed
    /\ ~hasOpenAlertInStore(dbAlerts, lastEval'.turbine, lastEval'.score)
    /\ ~insertInFlight(pOps, lastEval'.turbine, lastEval'.score)

\* C3 (SpecAlerts): whenever an evaluation of turbine T yields a score
\* s < 60 and T has no alert with alert_type = health_score,
\* status # completed and health_score = s, a new alert (T, health_score,
\* pending, s) is created: the step in which the evaluation returns
\* issues its insert.
C3_LowScoreCreatesAlert ==
    [][C3_EvaluationNeedsAlert =>
          insertInFlight(pOps', lastEval'.turbine, lastEval'.score)]_vars

\* ---------------------------------------------------------------------
\* StatusController: the in-memory update
\* ---------------------------------------------------------------------
C4_UpdateCompleted ==
    /\ done'.result # "none"
    /\ done'.op.kind = "updateTurbineStatus"
    /\ done'.result = "success"

C4_Frame ==
    /\ Len(turbines') = Len(turbines)
    /\ \A j \in DOMAIN turbines :
          IF turbines[j].id = done'.op.id
          THEN /\ turbines'[j].status = done'.op.arg
               /\ Len(turbines'[j].events) = Len(turbines[j].events) + 1
               /\ Tail(turbines'[j].events) = turbines[j].events
               /\ Head(turbines'[j].events).event[2] = done'.op.arg
               /\ [turbines'[j] EXCEPT !.status = "", !.events = <<>>]
                      = [turbines[j] EXCEPT !.status = "", !.events = <<>>]
          ELSE turbines'[j] = turbines[j]

\* C4 (Spec). As amended: when updateTurbineStatus(id, newStatus) reaches
\* its in-memory update, every turbine other than id is unchanged, and
\* turbine id, if it is still in the in-memory collection, has status
\* newStatus and an event list that is one new status-change event followed
\* by its previous events in their previous order (also when newStatus is
\* the status it already had).
C4_StatusUpdateFrame == [][C4_UpdateCompleted => C4_Frame]_vars

\* C4 as stated: after every successful updateTurbineStatus(id, newStatus)
\* the in-memory turbine id has status newStatus (and the frame holds)
C4_AsStated ==
    [][C4_UpdateCompleted =>
          /\ C4_Frame
          /\ \E j \in DOMAIN turbines' :
                /\ turbines'[j].id = done'.op.id
                /\ turbines'[j].status = done'.op.arg]_vars

\* a second status change of T1 has been applied on top of a first one,
\* with T2 still as loaded
C4_Witness ==
    /\ done.op.kind = "updateTurbineStatus"
    /\ done.result = "success"
    /\ \E j \in DOMAIN turbines :
          /\ turbines[j].id = done.op.id
          /\ turbines[j].status = done.op.arg
          /\ Len(turbines[j].events) = 2
          /\ turbines[j].events[1] # turbines[j].events[2]
    /\ \E j \in DOMAIN turbines : turbines[j].id # done.op.id

\* ---------------------------------------------------------------------
\* StatusController: the recorded event
\* ---------------------------------------------------------------------
C5_ClaimedText(newStatus) == <<"Status changed to ", newStatus>>

C5_ClaimedPriority(newStatus) ==
    CASE newStatus = "error" -> 1 [] newStatus = "warning" -> 2 [] OTHER -> 3

C5_AsClaimed(e) ==
    \E s \in TurbineStatuses :
        /\ e.event = C5_ClaimedText(s)
        /\ eventPriority(e) = {C5_ClaimedPriority(s)}

\* C5 (Spec). Every event recorded by setStatus(turbineId, newStatus), as
\* a turbine_events row and as an in-memory event, has the text
\* "Status changed to {newStatus}" and priority 1 for error, 2 for warning,
\* 3 for normal.
C5_EventTextAndPriority ==
    /\ \A k \in DOMAIN dbEvents : C5_AsClaimed(dbEvents[k])
    /\ \A j \in DOMAIN turbines : \A k \in DOMAIN turbines[j].events :
          \/ turbines[j].events[k] = installedEvent
          \/ C5_AsClaimed(turbines[j].events[k])

\* ---------------------------------------------------------------------
\* Error policy of the store-backed operations
\* ---------------------------------------------------------------------
StoreBackedOps ==
    {"updateTurbinePosition", "updateTurbineStatus", "addConnection",
     "updateConnectionStatus", "deleteConnection", "deleteTurbine",
     "deleteSubstation", "createTurbine"}

\* C6 (Spec). When a store-backed operation finishes and one of its store
\* calls returned an error, the in-memory turbine, substation and
\* connection collections are what they were before.
C6_ErrorLeavesMemoryUnchanged ==
    [][(/\ done'.result # "none"
        /\ done'.op.kind \in StoreBackedOps
        /\ done'.errors)
       => UNCHANGED <<turbines, substations, connections>>]_vars

\* ---------------------------------------------------------------------
\* C7 (Spec). When deleteTurbine(id) completes successfully, no in-memory
\* turbine has that id and no in-memory connection has it as from or to.
\* ---------------------------------------------------------------------
C7_DeleteRemovesTurbineAndConnections ==
    [][(/\ done'.result # "none"
        /\ done'.op.kind = "deleteTurbine"
        /\ done'.result = "success")
       => /\ done'.op.id \notin SeqIds(turbines')
          /\ \A j \in DOMAIN connections' :
                /\ connections'[j].from # done'.op.id
                /\ connections'[j].to # done'.op.id]_vars

\* a turbine that was both a from and a to endpoint has been deleted
C7_Witness ==
    /\ done.op.kind = "deleteTurbine"
    /\ done.result = "success"
    /\ Len(done.op.related) = 2
    /\ done.op.id \notin SeqIds(turbines)
    /\ turbines # <<>>

\* ---------------------------------------------------------------------
\* C8 (Spec). If a step of the turbine deletion sequence fails, the
\* operation aborts: no later delete is issued (no deleteTurbine is still
\* in flight after a failed step), the turbine row stays in the store and
\* the turbine stays in the in-memory collection.
\* ---------------------------------------------------------------------
C8_AbortOnFailure ==
    [][/\ \A i \in DOMAIN ops' :
             ops'[i].kind = "deleteTurbine" => ~ops'[i].failed
       /\ (/\ done'.result # "none"
           /\ done'.op.kind = "deleteTurbine"
           /\ done'.errors)
          => /\ turbines' = turbines
             /\ {r \in dbTurbines' : r.id = done'.op.id}
                    = {r \in dbTurbines : r.id = done'.op.id}]_vars

====
